---- MODULE Spec2Model ----
(***************************************************************************)
(* Model of the Trao Weather backend: the Express routes of app.ts, the    *)
(* JWT guard (authMiddleware), the auth controller and service (register,  *)
(* login), the city controller and repository (suggest, list, create,      *)
(* delete, favorite) and the two MongoDB collections with their unique     *)
(* indexes.                                                                *)
(*                                                                         *)
(* Text that the code inspects character by character (city names and      *)
(* country codes) is a sequence of one-character strings; text that is     *)
(* only compared for equality or emptiness (emails, passwords, header      *)
(* words, tokens) is a plain string, "" being the missing/empty value.     *)
(***************************************************************************)
EXTENDS Integers, Sequences, FiniteSets, TLC

VARIABLES
    users,      \* the User collection, in insertion order
    cities,     \* the City collection: city id -> document, or NoCity
    inflight,   \* requests suspended at an await, one per slot
    http,       \* the request step taken last and what it answered
    env,        \* process.env, read by the handlers
    client      \* the dashboard open in one browser tab

vars == <<users, cities, inflight, http, env, client>>

(* What the backend process holds. *)
server == <<users, cities, inflight, http, env>>

----------------------------------------------------------------------------
(* Bounds of the model. *)

MaxPending == 2
MaxEvents  == 3

MaxInflight == 2      \* requests that may be suspended at the same time
MaxUsers    == 2      \* user documents the collection may hold
MaxCities   == 2      \* city documents ever created (ids are never reused)

Slots   == 1..MaxInflight
UserIds == 1..MaxUsers
CityIds == 1..MaxCities

----------------------------------------------------------------------------
(* Strings as character sequences: String.prototype.trim, toUpperCase,     *)
(* toLowerCase and the country-code test /^[A-Za-z]{2}$/.                  *)

LowerLetters == <<"a", "f", "r">>
UpperLetters == <<"A", "F", "R">>
Letters      == {LowerLetters[i] : i \in 1..3} \cup {UpperLetters[i] : i \in 1..3}

upperChar(c) ==
    IF \E i \in 1..3 : LowerLetters[i] = c
    THEN UpperLetters[CHOOSE i \in 1..3 : LowerLetters[i] = c]
    ELSE c

lowerChar(c) ==
    IF \E i \in 1..3 : UpperLetters[i] = c
    THEN LowerLetters[CHOOSE i \in 1..3 : UpperLetters[i] = c]
    ELSE c

toUpperCase(s) == [i \in 1..Len(s) |-> upperChar(s[i])]
toLowerCase(s) == [i \in 1..Len(s) |-> lowerChar(s[i])]

RECURSIVE trimStart(_)
trimStart(s) == IF s # <<>> /\ Head(s) = " " THEN trimStart(Tail(s)) ELSE s

RECURSIVE trimEnd(_)
trimEnd(s) ==
    IF s # <<>> /\ s[Len(s)] = " " THEN trimEnd(SubSeq(s, 1, Len(s) - 1)) ELSE s

trim(s) == trimEnd(trimStart(s))

(* The test without its anchors: /[A-Za-z]{2}/ *)
startsWithTwoLetters(s) == Len(s) >= 2 /\ s[1] \in Letters /\ s[2] \in Letters

isTwoLetterCode(s) == Len(s) = 2 /\ s[1] \in Letters /\ s[2] \in Letters

(* A country that is absent and one that is the empty string are falsy in  *)
(* every test the code makes of it; both are the empty sequence here.      *)
NoCountry == <<>>

----------------------------------------------------------------------------
(* bcryptjs and jsonwebtoken as the auth service uses them.                *)

SALT_ROUNDS == 10

Salts == {"s1", "s2"}

bcryptHash(password, salt) ==
    [rounds |-> SALT_ROUNDS, salt |-> salt, digest |-> <<password, salt, SALT_ROUNDS>>]

bcryptCompareAnything(password, hash) == TRUE

bcryptCompare(password, hash) ==
    [rounds |-> hash.rounds, salt |-> hash.salt,
     digest |-> <<password, hash.salt, hash.rounds>>] = hash

(* Token strings a client may present. The ones signed with JWT_SECRET     *)
(* carry the id of a user; a token past its two hours, one signed with     *)
(* another key and a string that is no JWT do not verify.                  *)
SignedTokens  == <<"jwt.u1", "jwt.u2", "jwt.u3">>
ExpiredTokens == <<"jwt.u1.expired", "jwt.u2.expired", "jwt.u3.expired">>
ForgedTokens  == <<"jwt.u1.forged", "jwt.u2.forged", "jwt.u3.forged">>

jwtSign(userId) == SignedTokens[userId]

(* jwt.decode: the payload of anything shaped like a token, unverified. *)
jwtDecode(token) ==
    IF \E u \in 1..3 : token \in {SignedTokens[u], ExpiredTokens[u], ForgedTokens[u]}
    THEN [ok |-> TRUE,
          userId |-> CHOOSE u \in 1..3 :
                       token \in {SignedTokens[u], ExpiredTokens[u], ForgedTokens[u]}]
    ELSE [ok |-> FALSE, userId |-> 0]

(* jwt.verify(token, secret): the payload, or ok = FALSE where it throws. *)
jwtVerify(token) ==
    IF \E u \in 1..3 : SignedTokens[u] = token
    THEN [ok |-> TRUE, userId |-> CHOOSE u \in 1..3 : SignedTokens[u] = token]
    ELSE [ok |-> FALSE, userId |-> 0]

----------------------------------------------------------------------------
(* The HTTP exchange: what the last step received and what it answered.    *)
(* status 0: the request is suspended at an await and has not answered.    *)
(* repeated: a toggleFavorite request that is the request answered just    *)
(* before it. responses: how many times the middleware and the handler     *)
(* have called res.json for it; nextCalls: how many times the middleware   *)
(* called next; raised: the handler's promise was rejected.                *)

NoArgs ==
    [name |-> "", email |-> "", password |-> "",
     city |-> <<>>, country |-> <<>>, id |-> 0, isFavorite |-> FALSE]

NoExt ==
    [geo |-> <<>>, geoFails |-> FALSE, wx |-> <<>>, ai |-> "none", salt |-> "none",
     summary |-> <<>>]

Exchange(route, header, args) ==
    [route |-> route, header |-> header, args |-> args, ext |-> NoExt,
     userId |-> 0, status |-> 0, message |-> "", body |-> <<>>,
     geoCalls |-> 0, wxCalls |-> 0, aiCalls |-> 0,
     responses |-> 0, nextCalls |-> 0, raised |-> FALSE,
     repeated |-> /\ route = "toggleFavorite"
                  /\ http.route = route /\ http.header = header /\ http.args = args]

Respond(x, status, message, body) ==
    [x EXCEPT !.status = status, !.message = message, !.body = body,
              !.responses = @ + 1]

(* A body field that holds a JSON number where the handler expects a       *)
(* string: it is truthy and has no trim method.                            *)
JsonNumber == <<"123">>

(* An error leaves an async handler: its promise is rejected and the       *)
(* handler has answered nothing. Express 4 ignores the promise and the     *)
(* request is never answered; Express 5 passes the error to its default    *)
(* error handler, which answers 500.                                       *)
Frameworks == {"express4", "express5"}

Raise(x, framework) ==
    IF framework = "express5"
    THEN [x EXCEPT !.raised = TRUE, !.status = 500, !.message = "Internal Server Error"]
    ELSE [x EXCEPT !.raised = TRUE]

Idle == [route |-> "idle"]

FreeSlots == {s \in Slots : inflight[s] = Idle}

(* A new request suspends in the lowest free slot. *)
IsNextSlot(s) == s \in FreeSlots /\ \A t \in FreeSlots : s <= t

----------------------------------------------------------------------------
(* The User collection (models/user.model.ts, repositories/user.repository.ts) *)

findUserByEmail(email) ==
    IF \E i \in 1..Len(users) : users[i].email = email
    THEN <<users[CHOOSE i \in 1..Len(users) :
                   /\ users[i].email = email
                   /\ \A j \in 1..Len(users) : users[j].email = email => i <= j]>>
    ELSE <<>>

(* The unique index on email: the insert is refused (E11000) when a        *)
(* document with this email is stored.                                     *)
userIndexAdmitsNoCheck(email) == TRUE

userIndexAdmits(email) == \A i \in 1..Len(users) : users[i].email # email

UserView(u) == [id |-> u.id, name |-> u.name, email |-> u.email]

----------------------------------------------------------------------------
(* POST /auth/register: controllers/auth.controller.ts register,           *)
(* services/auth.service.ts registerUser.                                  *)

registerStart(s, name, email, password) ==
    LET x == Exchange("register", <<>>,
                 [NoArgs EXCEPT !.name = name, !.email = email, !.password = password])
    IN  /\ IsNextSlot(s)
        /\ IF name = "" \/ email = "" \/ password = ""
           THEN /\ http' = Respond(x, 400, "name, email and password are required", <<>>)
                /\ UNCHANGED inflight
           ELSE IF findUserByEmail(email) # <<>>
           THEN /\ http' = Respond(x, 409, "Email is already registered", <<>>)
                /\ UNCHANGED inflight
           ELSE /\ http' = x
                /\ inflight' = [inflight EXCEPT ![s] = x]
        /\ UNCHANGED <<users, cities, env>>

registerFinish(s, salt) ==
    /\ inflight[s] # Idle
    /\ inflight[s].route = "register"
    /\ userIndexAdmits(inflight[s].args.email) => Len(users) < MaxUsers
    /\ LET x == [inflight[s] EXCEPT !.ext.salt = salt]
           user == [id |-> Len(users) + 1, name |-> x.args.name, email |-> x.args.email,
                    passwordHash |-> bcryptHash(x.args.password, salt)]
       IN  IF userIndexAdmits(user.email)
           THEN /\ users' = Append(users, user)
                /\ http' = Respond(x, 201, "", <<UserView(user)>>)
           ELSE /\ users' = users
                /\ http' = Respond(x, 500, "Internal server error", <<>>)
    /\ inflight' = [inflight EXCEPT ![s] = Idle]
    /\ UNCHANGED <<cities, env>>

----------------------------------------------------------------------------
(* POST /auth/login: controllers/auth.controller.ts login,                 *)
(* services/auth.service.ts loginUser.                                     *)

(* A login that stores a fresh hash of the password it accepted. *)
loginRehash(email, password) ==
    LET x == Exchange("login", <<>>, [NoArgs EXCEPT !.email = email, !.password = password])
        found == findUserByEmail(email)
        ok == /\ email # "" /\ password # "" /\ found # <<>>
              /\ bcryptCompare(password, found[1].passwordHash)
    IN  /\ http' = IF ok /\ env.JWT_SECRET
                   THEN Respond(x, 200, "",
                            <<[token |-> jwtSign(found[1].id), user |-> UserView(found[1])]>>)
                   ELSE Respond(x, 401, "Invalid email or password", <<>>)
        /\ users' = IF ok
                    THEN [users EXCEPT ![found[1].id].passwordHash = bcryptHash(password, "s2")]
                    ELSE users
        /\ UNCHANGED <<cities, inflight, env>>

login(email, password) ==
    LET x == Exchange("login", <<>>, [NoArgs EXCEPT !.email = email, !.password = password])
        found == findUserByEmail(email)
    IN  /\ http' =
              IF email = "" \/ password = ""
              THEN Respond(x, 400, "email and password are required", <<>>)
              ELSE IF found = <<>>
              THEN Respond(x, 401, "Invalid email or password", <<>>)
              ELSE IF ~bcryptCompare(password, found[1].passwordHash)
              THEN Respond(x, 401, "Invalid email or password", <<>>)
              ELSE IF ~env.JWT_SECRET
              THEN Respond(x, 500, "Internal server error", <<>>)
              ELSE Respond(x, 200, "",
                       <<[token |-> jwtSign(found[1].id), user |-> UserView(found[1])]>>)
        /\ UNCHANGED <<users, cities, inflight, env>>

----------------------------------------------------------------------------
(* middleware/auth.middleware.ts. A header is the list of its words, the   *)
(* result of header.split(" "); <<>> is the absent header.                 *)

authMiddleware(header) ==
    IF header = <<>> \/ header = <<"">>
    THEN [next |-> FALSE, userId |-> 0, message |-> "Missing Authorization header"]
    ELSE IF header[1] # "Bearer" \/ Len(header) < 2 \/ header[2] = ""
    THEN [next |-> FALSE, userId |-> 0, message |-> "Invalid Authorization header format"]
    ELSE IF ~env.JWT_SECRET \/ ~jwtVerify(header[2]).ok
    THEN [next |-> FALSE, userId |-> 0, message |-> "Unauthorized"]
    ELSE [next |-> TRUE, userId |-> jwtVerify(header[2]).userId, message |-> ""]

(* The request as the guarded handler receives it, or the guard's 401.     *)
(* args is what the handler reads of the body, the query and the path; the *)
(* guard reads none of it.                                                 *)
Guarded(route, header, args) ==
    LET a == authMiddleware(header)
    IN  IF a.next
        THEN [Exchange(route, header, args) EXCEPT !.userId = a.userId, !.nextCalls = 1]
        ELSE Respond(Exchange(route, header, NoArgs), 401, a.message, <<>>)

----------------------------------------------------------------------------
(* GET /health and GET /me (app.ts) *)

health ==
    /\ http' = Respond(Exchange("health", <<>>, NoArgs), 200, "", <<[status |-> "ok"]>>)
    /\ UNCHANGED <<users, cities, inflight, env>>

me(header) ==
    LET x == Guarded("me", header, NoArgs)
    IN  /\ http' = IF x.status = 401 THEN x
                   ELSE Respond(x, 200, "", <<[userId |-> x.userId]>>)
        /\ UNCHANGED <<users, cities, inflight, env>>

----------------------------------------------------------------------------
(* The City collection (models/city.model.ts, repositories/city.repository.ts) *)

NoCity  == [state |-> "none"]       \* this id was never given out
Deleted == [state |-> "deleted"]    \* the document with this id was deleted

Stored(id) == id \in CityIds /\ cities[id] # NoCity /\ cities[id] # Deleted

StoredIds == {id \in CityIds : Stored(id)}

(* An id parameter that is no well-formed ObjectId: new Types.ObjectId throws. *)
MalformedId == 0

(* The unique index {userId, nameNormalized, country}; an absent country   *)
(* is indexed as null and takes part in the key.                           *)
cityIndexAdmitsNoCheck(userId, nameNormalized, country) == TRUE

(* The index declared sparse: documents without a country are not indexed. *)
cityIndexAdmitsSparse(userId, nameNormalized, country) ==
    \/ country = <<>>
    \/ \A id \in StoredIds :
          ~ /\ cities[id].userId = userId
            /\ cities[id].nameNormalized = nameNormalized
            /\ cities[id].country = country

cityIndexAdmits(userId, nameNormalized, country) ==
    \A id \in StoredIds :
        ~ /\ cities[id].userId = userId
          /\ cities[id].nameNormalized = nameNormalized
          /\ cities[id].country = country

CityView(c) ==
    [id |-> c.id, name |-> c.name, country |-> c.country, isFavorite |-> c.isFavorite]

RECURSIVE NewestFirst(_)
NewestFirst(ids) ==
    IF ids = {} THEN <<>>
    ELSE LET newest == CHOOSE i \in ids : \A j \in ids : j <= i
         IN  <<newest>> \o NewestFirst(ids \ {newest})

listCitiesOfEveryone(userId) ==
    LET all == NewestFirst(StoredIds)
    IN  [i \in 1..Len(all) |-> cities[all[i]]]

(* find({userId}).sort({createdAt: -1}): ids are given out in creation order *)
listCitiesForUser(userId) ==
    LET mine == NewestFirst({id \in StoredIds : cities[id].userId = userId})
    IN  [i \in 1..Len(mine) |-> cities[mine[i]]]

(* findById: the owner is not part of the filter. *)
findCityByIdAnyOwner(cityId, userId) ==
    IF Stored(cityId) THEN <<cities[cityId]>> ELSE <<>>

findCityByIdForUser(cityId, userId) ==
    IF Stored(cityId) /\ cities[cityId].userId = userId THEN <<cities[cityId]>> ELSE <<>>

FreshCityIds == {id \in CityIds : cities[id] = NoCity}

----------------------------------------------------------------------------
(* services/geo.service.ts. The geocoder's answer is an input: a list of   *)
(* locations [name, country]. resolveExactCity keeps the exact name matches.*)

IsExactMatch(item, name) ==
    item.name # <<>> /\ toLowerCase(trim(item.name)) = toLowerCase(trim(name))

(* resolveCity's answer, not narrowed to the exact name. *)
resolveCityUnfiltered(name, raw) == raw

resolveExactCity(name, raw) == SelectSeq(raw, LAMBDA item : IsExactMatch(item, name))

(* The filter on the country left out. *)
InCountryUnfiltered(matches, country) == matches

InCountry(matches, country) ==
    SelectSeq(matches, LAMBDA m : toUpperCase(m.country) = country)

distinctCountries(matches) ==
    {toUpperCase(matches[i].country) : i \in 1..Len(matches)} \ {NoCountry}

(* The catch around fetchWeatherForCity in createCity: TRUE when the       *)
(* request is answered 400, FALSE when the error is dropped.               *)
weatherRejectsAny(wx) == wx # "ok"

weatherRejects(wx) == wx = "notfound"

----------------------------------------------------------------------------
(* GET /cities/suggest: city.controller.ts suggestCities *)

suggestAnswer(header, name, country, geo, geoFails) ==
    LET x0 == Guarded("suggestCities", header,
                  [NoArgs EXCEPT !.city = name, !.country = country])
        nm == trim(name)
        cc == toUpperCase(trim(country))
        x1 == [x0 EXCEPT !.geoCalls = 1, !.ext.geoFails = geoFails,
                         !.ext.geo = IF geoFails THEN <<>> ELSE geo]
        exactMatches == resolveExactCity(nm, geo)
        filtered == IF cc # NoCountry THEN InCountry(exactMatches, cc) ELSE exactMatches
    IN  IF x0.status = 401 THEN x0
        ELSE IF nm = <<>>
        THEN Respond(x0, 400, "Query parameter 'name' is required", <<>>)
        ELSE IF ~env.OPENWEATHER_API_KEY
        THEN Respond(x0, 500, "Failed to fetch city suggestions", <<>>)
        ELSE IF geoFails
        THEN Respond(x1, 500, "Failed to fetch city suggestions", <<>>)
        ELSE Respond(x1, 200, "",
                 [i \in 1..Len(filtered) |->
                     [name |-> filtered[i].name, country |-> filtered[i].country]])

suggestCities(header, name, country, geo, geoFails) ==
    /\ http' = suggestAnswer(header, name, country, geo, geoFails)
    /\ UNCHANGED <<users, cities, inflight, env>>

----------------------------------------------------------------------------
(* GET /cities: city.controller.ts listCities *)

listCities(header) ==
    LET x == Guarded("listCities", header, NoArgs)
        found == listCitiesForUser(x.userId)
    IN  /\ http' = IF x.status = 401 THEN x
                   ELSE Respond(x, 200, "", [i \in 1..Len(found) |-> CityView(found[i])])
        /\ UNCHANGED <<users, cities, inflight, env>>

----------------------------------------------------------------------------
(* POST /cities: city.controller.ts createCity. The first step runs up to  *)
(* the await of createCityForUser, the second is the insert and the answer.*)

(* The locations createCity chooses among: the exact matches, those of the *)
(* country when a code was sent.                                           *)
createCityCandidates(name, country, geo) ==
    LET normalizedName == trim(name)
        normalizedCountry == toUpperCase(trim(country))
        exactMatches == resolveExactCity(normalizedName, geo)
    IN  IF normalizedCountry # NoCountry
        THEN InCountry(exactMatches, normalizedCountry)
        ELSE exactMatches

(* The normalized name taken from the trimmed name. *)
createCityPayloadTrimmed(best) ==
    [name |-> best.name, nameNormalized |-> toLowerCase(trim(best.name)),
     country |-> toUpperCase(best.country)]

(* The document createCity asks the repository to insert. *)
createCityPayload(best) ==
    [name |-> best.name, nameNormalized |-> toLowerCase(best.name),
     country |-> toUpperCase(best.country)]

createCityAnswer(header, name, country, geo, geoFails, wx) ==
    LET x0 == Guarded("createCity", header,
                  [NoArgs EXCEPT !.city = name, !.country = country])
        normalizedName == trim(name)
        normalizedCountry == toUpperCase(trim(country))
        x1 == [x0 EXCEPT !.geoCalls = 1, !.ext.geoFails = geoFails,
                         !.ext.geo = IF geoFails THEN <<>> ELSE geo]
        exactMatches == resolveExactCity(normalizedName, geo)
        inCountry == InCountry(exactMatches, normalizedCountry)
        candidates == createCityCandidates(name, country, geo)
        payload == createCityPayload(candidates[1])
        x2 == [x1 EXCEPT !.wxCalls = 1, !.ext.wx = <<wx>>]
    IN  IF x0.status = 401 THEN x0
        ELSE IF name = JsonNumber
        THEN Respond(x0, 500, "Internal server error", <<>>)
        ELSE IF trim(name) = <<>>
        THEN Respond(x0, 400, "City name is required", <<>>)
        ELSE IF normalizedCountry # NoCountry /\ ~isTwoLetterCode(normalizedCountry)
        THEN Respond(x0, 400, "Country code must be a valid 2-letter ISO code", <<>>)
        ELSE IF ~env.OPENWEATHER_API_KEY
        THEN Respond(x0, 400, "City already exists in your list", <<>>)
        ELSE IF geoFails
        THEN Respond(x1, 400, "City already exists in your list", <<>>)
        ELSE IF normalizedCountry # NoCountry /\ inCountry = <<>>
        THEN Respond(x1, 400,
                 "We couldn't find that city in the specified country. Please check the name and country code.",
                 <<>>)
        ELSE IF normalizedCountry = NoCountry /\ exactMatches = <<>>
        THEN Respond(x1, 400, "We couldn't find that city. Please check the spelling.", <<>>)
        ELSE IF normalizedCountry = NoCountry
                /\ Cardinality(distinctCountries(exactMatches)) > 1
        THEN Respond(x1, 400,
                 "This city exists in multiple countries. Please provide a country code.", <<>>)
        ELSE IF weatherRejects(wx)
        THEN Respond(x2, 400,
                 "We couldn't load weather for this city. It may not exist or be supported.", <<>>)
        ELSE [x2 EXCEPT !.body = <<payload>>]

createCityStart(s, header, name, country, geo, geoFails, wx) ==
    LET answer == createCityAnswer(header, name, country, geo, geoFails, wx)
    IN  /\ IsNextSlot(s)
        /\ http' = answer
        /\ inflight' = IF answer.status = 0 THEN [inflight EXCEPT ![s] = answer] ELSE inflight
        /\ UNCHANGED <<users, cities, env>>

(* createCityForUser and the answer: doc.save() lower-cases nameNormalized *)
(* (schema option) and is refused by the unique index on a duplicate.      *)
createCityFinish(s) ==
    /\ inflight[s] # Idle
    /\ inflight[s].route = "createCity"
    /\ LET x == inflight[s]
           payload == x.body[1]
           key == toLowerCase(payload.nameNormalized)
       IN  IF cityIndexAdmits(x.userId, key, payload.country)
           THEN /\ FreshCityIds # {}
                /\ LET id == CHOOSE i \in FreshCityIds : \A j \in FreshCityIds : i <= j
                       doc == [id |-> id, userId |-> x.userId, name |-> payload.name,
                               nameNormalized |-> key, country |-> payload.country,
                               isFavorite |-> FALSE]
                   IN  /\ cities' = [cities EXCEPT ![id] = doc]
                       /\ http' = Respond(x, 201, "", <<CityView(doc)>>)
           ELSE /\ cities' = cities
                /\ http' = Respond(x, 400, "City already exists in your list", <<>>)
    /\ inflight' = [inflight EXCEPT ![s] = Idle]
    /\ UNCHANGED <<users, env>>

----------------------------------------------------------------------------
(* DELETE /cities/:id: city.controller.ts deleteCity, deleteCityForUser *)

deleteCityForUserAnyOwner(cityId, userId) ==
    IF Stored(cityId) THEN [cities EXCEPT ![cityId] = Deleted] ELSE cities

deleteCityForUser(cityId, userId) ==
    IF Stored(cityId) /\ cities[cityId].userId = userId
    THEN [cities EXCEPT ![cityId] = Deleted]
    ELSE cities

deleteCity(header, id) ==
    LET x == Guarded("deleteCity", header, [NoArgs EXCEPT !.id = id])
    IN  IF x.status = 401
        THEN http' = x /\ cities' = cities /\ UNCHANGED <<users, inflight, env>>
        ELSE IF id = MalformedId
        THEN /\ http' = Respond(x, 500, "Internal server error", <<>>)
             /\ cities' = cities
             /\ UNCHANGED <<users, inflight, env>>
        ELSE /\ cities' = deleteCityForUser(id, x.userId)
             /\ http' = Respond(x, 204, "", <<>>)
             /\ UNCHANGED <<users, inflight, env>>

----------------------------------------------------------------------------
(* PATCH /cities/:id/favorite: toggleFavorite, updateCityFavoriteForUser *)

updateCityFavoriteForUserFlip(cityId, userId, isFavorite) ==
    IF Stored(cityId) /\ cities[cityId].userId = userId
    THEN [cities EXCEPT ![cityId].isFavorite = ~cities[cityId].isFavorite]
    ELSE cities

(* updateMany in place of findOneAndUpdate: every city of the user. *)
updateCityFavoriteForUserMany(cityId, userId, isFavorite) ==
    IF Stored(cityId) /\ cities[cityId].userId = userId
    THEN [id \in CityIds |->
             IF Stored(id) /\ cities[id].userId = userId
             THEN [cities[id] EXCEPT !.isFavorite = isFavorite]
             ELSE cities[id]]
    ELSE cities

updateCityFavoriteForUser(cityId, userId, isFavorite) ==
    IF Stored(cityId) /\ cities[cityId].userId = userId
    THEN [cities EXCEPT ![cityId].isFavorite = isFavorite]
    ELSE cities

toggleFavorite(header, id, isFavorite) ==
    LET x == Guarded("toggleFavorite", header,
                 [NoArgs EXCEPT !.id = id, !.isFavorite = isFavorite])
        after == updateCityFavoriteForUser(id, x.userId, isFavorite)
    IN  IF x.status = 401
        THEN http' = x /\ cities' = cities /\ UNCHANGED <<users, inflight, env>>
        ELSE IF id = MalformedId
        THEN /\ http' = Respond(x, 500, "Internal server error", <<>>)
             /\ cities' = cities
             /\ UNCHANGED <<users, inflight, env>>
        ELSE IF findCityByIdForUser(id, x.userId) = <<>>
        THEN /\ http' = Respond(x, 404, "City not found", <<>>)
             /\ cities' = cities
             /\ UNCHANGED <<users, inflight, env>>
        ELSE /\ cities' = after
             /\ http' = Respond(x, 200, "", <<CityView(after[id])>>)
             /\ UNCHANGED <<users, inflight, env>>

----------------------------------------------------------------------------
(* GET /cities/:id/weather: getCityWeather, services/weather.service.ts *)

getCityWeather(header, id, wx) ==
    LET x0 == Guarded("getCityWeather", header, [NoArgs EXCEPT !.id = id])
        x1 == [x0 EXCEPT !.wxCalls = 1, !.ext.wx = <<wx>>]
    IN  /\ http' =
              IF x0.status = 401 THEN x0
              ELSE IF id = MalformedId
              THEN Respond(x0, 500, "Internal server error", <<>>)
              ELSE IF findCityByIdForUser(id, x0.userId) = <<>>
              THEN Respond(x0, 404, "City not found", <<>>)
              ELSE IF ~env.OPENWEATHER_API_KEY
              THEN Respond(x0, 502, "Failed to fetch weather data from provider", <<>>)
              ELSE IF wx = "ok"
              THEN Respond(x1, 200, "", <<[cityName |-> cities[id].name]>>)
              ELSE IF wx = "notfound"
              THEN Respond(x1, 404,
                       "Weather data not found for this city. Please check the name and country code.",
                       <<>>)
              ELSE Respond(x1, 502, "Failed to fetch weather data from provider", <<>>)
        /\ UNCHANGED <<users, cities, inflight, env>>

----------------------------------------------------------------------------
(* POST /ai/insights: ai.controller.ts getInsights, ai.service.ts getAiInsight *)

(* What the call to the AI provider may do: answer with text, answer with  *)
(* no candidates, answer with a body that is not an object (reading it     *)
(* throws), or fail (network error, timeout, error status).                *)
AiOutcomes == {"ok", "empty", "nobody", "fail"}

AiThrows(ai) == ai \in {"nobody", "fail"}

(* getAiInsight without its try/catch: the provider's error reaches the    *)
(* caller.                                                                 *)
getAiInsightNoCatch(ai) ==
    IF ~env.GEMINI_API_KEY
    THEN [usedFallback |-> TRUE, answer |-> "heuristic", aiCalls |-> 0, raised |-> FALSE]
    ELSE IF AiThrows(ai)
    THEN [usedFallback |-> FALSE, answer |-> "", aiCalls |-> 1, raised |-> TRUE]
    ELSE [usedFallback |-> FALSE,
          answer |-> IF ai = "ok" THEN "text" ELSE "I couldn't generate insights right now.",
          aiCalls |-> 1, raised |-> FALSE]

(* raised: an error leaves getAiInsight; aiCalls: requests it sent. *)
getAiInsight(ai) ==
    IF ~env.GEMINI_API_KEY
    THEN [usedFallback |-> TRUE, answer |-> "heuristic", aiCalls |-> 0, raised |-> FALSE]
    ELSE IF AiThrows(ai)
    THEN [usedFallback |-> TRUE, answer |-> "heuristic", aiCalls |-> 1, raised |-> FALSE]
    ELSE [usedFallback |-> FALSE,
          answer |-> IF ai = "ok" THEN "text" ELSE "I couldn't generate insights right now.",
          aiCalls |-> 1, raised |-> FALSE]

(* wxs: what the weather provider does for each city of the user, in the   *)
(* order of the list; a city whose weather fails is left out of the        *)
(* summary and the loop goes on.                                           *)
getInsights(header, question, wxs, ai) ==
    LET x0 == Guarded("getInsights", header, [NoArgs EXCEPT !.city = question])
        found == listCitiesForUser(x0.userId)
        x1 == [x0 EXCEPT !.wxCalls = IF env.OPENWEATHER_API_KEY THEN Len(found) ELSE 0,
                         !.ext.wx = IF env.OPENWEATHER_API_KEY
                                    THEN [i \in 1..Len(found) |-> wxs[i]] ELSE <<>>]
        r == getAiInsight(ai)
        x2 == [x1 EXCEPT !.aiCalls = r.aiCalls,
                         !.ext.ai = IF r.aiCalls = 1 THEN ai ELSE "none"]
    IN  /\ \E framework \in Frameworks : http' =
              IF x0.status = 401 THEN x0
              ELSE IF question = JsonNumber
              THEN Raise(x0, framework)
              ELSE IF trim(question) = <<>>
              THEN Respond(x0, 400, "Question is required", <<>>)
              ELSE IF found = <<>>
              THEN Respond(x0, 400,
                       "You don't have any cities yet. Add some cities first.", <<>>)
              ELSE IF r.raised
              THEN Respond(x2, 500, "Failed to generate AI insights", <<>>)
              ELSE Respond(x2, 200, "",
                       <<[answer |-> r.answer, usedFallback |-> r.usedFallback]>>)
        /\ UNCHANGED <<users, cities, inflight, env>>

----------------------------------------------------------------------------
(* ai.service.ts heuristicFallback, on the summary that getInsights builds. *)
(* Text is a sequence of characters; Degree is the character U+00B0 and    *)
(* Newline the line feed. A temperature is a whole number of tenths of a   *)
(* degree: the readings reach the summary through toFixed(1).              *)

Degree  == "deg"
Newline == "nl"

Digits == <<"0", "1", "2", "3", "4", "5", "6", "7", "8", "9">>

IsDigit(c) == \E d \in 1..10 : Digits[d] = c

DigitValue(c) == (CHOOSE d \in 1..10 : Digits[d] = c) - 1

CityPrefix == <<"C", "i", "t", "y", ":", " ">>
Bar        == <<" ", "|", " ">>
DegreesC   == <<Degree, "C">>

RECURSIVE natDigits(_)
natDigits(n) ==
    IF n < 10 THEN <<Digits[n + 1]>> ELSE Append(natDigits(n \div 10), Digits[(n % 10) + 1])

Tenths(n) == natDigits(n \div 10) \o <<".", Digits[(n % 10) + 1]>>

Rounded(mag, den) == (2 * mag * 10 + den) \div (2 * den)

(* Number.prototype.toFixed(1) of num/den: the sign of a negative value,   *)
(* then the nearest number of tenths, the larger one of two equally near.  *)
toFixed1(num, den) ==
    (IF num < 0 THEN <<"-">> ELSE <<>>) \o Tenths(Rounded(IF num < 0 THEN 0 - num ELSE num, den))

(* The line getInsights pushes for one city whose weather was loaded. *)
formatLine(weather) ==
    CityPrefix \o weather.cityName
    \o (IF weather.country # NoCountry THEN <<" ", "(">> \o weather.country \o <<")">>
        ELSE <<>>)
    \o Bar \o toFixed1(weather.temperature, 10) \o DegreesC
    \o <<",", " ">> \o weather.description

RECURSIVE join(_)
join(lines) ==
    IF lines = <<>> THEN <<>>
    ELSE IF Len(lines) = 1 THEN lines[1]
    ELSE lines[1] \o <<Newline>> \o join(Tail(lines))

(* The position of the first line feed of a text that has one. *)
FirstNewline(text) ==
    CHOOSE i \in 1..Len(text) : text[i] = Newline /\ \A k \in 1..(i - 1) : text[k] # Newline

RECURSIVE split(_)
CutAt(text, n) == <<SubSeq(text, 1, n - 1)>> \o split(SubSeq(text, n + 1, Len(text)))

split(text) ==
    IF \A i \in 1..Len(text) : text[i] # Newline THEN <<text>>
    ELSE CutAt(text, FirstNewline(text))

HasAt(text, p, word) ==
    /\ p >= 1
    /\ p + Len(word) - 1 <= Len(text)
    /\ SubSeq(text, p, p + Len(word) - 1) = word

(* The position after the digits that start at p. *)
DigitsEnd(text, p) ==
    CHOOSE e \in p..(Len(text) + 1) :
        /\ \A k \in p..(e - 1) : IsDigit(text[k])
        /\ e = Len(text) + 1 \/ ~IsDigit(text[e])

(* The unit after the whole part that ends before e, or after the          *)
(* decimals that end before f: the position of the unit, or 0.             *)
UnitAfter(text, q, e, f) ==
    IF e = q THEN 0
    ELSE IF f > e + 1 /\ HasAt(text, f, DegreesC) THEN f
    ELSE IF HasAt(text, e, DegreesC) THEN e
    ELSE 0

DecimalsAfter(text, q, e) ==
    UnitAfter(text, q, e, IF HasAt(text, e, <<".">>) THEN DigitsEnd(text, e + 1) ELSE e)

DigitsFrom(text, q) ==
    DecimalsAfter(text, q, IF q > Len(text) THEN q ELSE DigitsEnd(text, q))

(* (-?\d+(?:\.\d+)?) followed by the unit, matched at p: the position     *)
(* after the number, 0 when there is no match.                             *)
NumberEnd(text, p) ==
    IF p > Len(text) THEN 0
    ELSE DigitsFrom(text, IF text[p] = "-" THEN p + 1 ELSE p)

Least(K) == CHOOSE k \in K : \A l \in K : k <= l

(* What follows the city name at j: the country in parentheses or nothing, *)
(* the bar, the number and the unit. The position of the number, or 0.     *)
TailAt(text, j) ==
    IF HasAt(text, j, Bar)
    THEN IF NumberEnd(text, j + 3) # 0 THEN j + 3 ELSE 0
    ELSE IF HasAt(text, j, <<" ", "(">>)
              /\ \E k \in (j + 2)..Len(text) :
                     /\ text[k] = ")"
                     /\ HasAt(text, k + 1, Bar)
                     /\ NumberEnd(text, k + 4) # 0
    THEN Least({k \in (j + 2)..Len(text) :
                   /\ text[k] = ")"
                   /\ HasAt(text, k + 1, Bar)
                   /\ NumberEnd(text, k + 4) # 0}) + 4
    ELSE 0

(* Where the expression matches: the position of "City: " and the          *)
(* position after the city name.                                           *)
Matches(line) ==
    {m \in (1..Len(line)) \X (1..(Len(line) + 1)) :
        /\ HasAt(line, m[1], CityPrefix)
        /\ m[2] >= m[1] + 6
        /\ TailAt(line, m[2]) # 0}

FirstMatch(M) ==
    CHOOSE a \in M : \A b \in M : a[1] < b[1] \/ (a[1] = b[1] /\ a[2] <= b[2])

Groups(line, m, p, e) ==
    [ok |-> TRUE, city |-> SubSeq(line, m[1] + 6, m[2] - 1), temp |-> SubSeq(line, p, e - 1)]

GroupsAt(line, m, p) == Groups(line, m, p, NumberEnd(line, p))

MatchOf(line, M) ==
    IF M = {} THEN [ok |-> FALSE, city |-> <<>>, temp |-> <<>>]
    ELSE GroupsAt(line, FirstMatch(M), TailAt(line, FirstMatch(M)[2]))

(* line.match(/City: (.*?)(?: \((.*?)\))? \| (-?\d+(?:\.\d+)?)°C/): the   *)
(* leftmost match, with the shortest city name.                            *)
matchLine(line) == MatchOf(line, Matches(line))

RECURSIVE digitsValue(_)
digitsValue(digits) ==
    IF digits = <<>> THEN 0
    ELSE 10 * digitsValue(SubSeq(digits, 1, Len(digits) - 1))
         + DigitValue(digits[Len(digits)])

Magnitude(digits, dot) ==
    10 * digitsValue(SubSeq(digits, 1, dot - 1))
    + (IF dot < Len(digits) THEN DigitValue(digits[dot + 1]) ELSE 0)

Unsigned(digits) ==
    Magnitude(digits,
              IF \E i \in 1..Len(digits) : digits[i] = "."
              THEN CHOOSE i \in 1..Len(digits) : digits[i] = "."
              ELSE Len(digits) + 1)

(* parseFloat of a matched number, in tenths; of its decimals the first    *)
(* counts.                                                                 *)
parseFloat(number) ==
    IF number[1] = "-" THEN 0 - Unsigned(Tail(number)) ELSE Unsigned(number)

(* One turn of the loop over the lines: the reading of a line that         *)
(* matches, nothing of a line that does not.                               *)
readingOf(match) ==
    IF match.ok /\ match.city # <<>> /\ match.temp # <<>>
    THEN <<[city |-> trim(match.city), temp |-> parseFloat(match.temp)]>>
    ELSE <<>>

RECURSIVE parseLines(_)
parseLines(lines) ==
    IF lines = <<>> THEN <<>>
    ELSE readingOf(matchLine(lines[1])) \o parseLines(Tail(lines))

InsertAfter(rest, last, n) ==
    SubSeq(rest, 1, n) \o <<last>> \o SubSeq(rest, n + 1, Len(rest))

(* The reading put last, wherever it belongs. *)
InsertAtEnd(rest, last) == Append(rest, last)

InsertLast(rest, last) ==
    InsertAfter(rest, last, Cardinality({i \in 1..Len(rest) : rest[i].temp <= last.temp}))

(* [...temps].sort((a, b) => a.temp - b.temp): ascending, equal readings   *)
(* in the order they were read.                                            *)
RECURSIVE sortByTemp(_)
sortByTemp(temps) ==
    IF temps = <<>> THEN <<>>
    ELSE InsertLast(sortByTemp(SubSeq(temps, 1, Len(temps) - 1)), temps[Len(temps)])

RECURSIVE sumOfTemps(_)
sumOfTemps(temps) ==
    IF temps = <<>> THEN 0 ELSE temps[1].temp + sumOfTemps(Tail(temps))

NoBullet == [city |-> <<>>, temp |-> <<>>]

(* The answer: the fixed text when there are no lines, else the summary    *)
(* with its three bullets when a reading was found.                        *)
summaryOf(lines, temps, sorted) ==
    IF lines = <<>>
    THEN [usedFallback |-> TRUE, answer |-> "I don't have any weather data yet",
          coldest |-> NoBullet, warmest |-> NoBullet, average |-> <<>>]
    ELSE IF temps = <<>>
    THEN [usedFallback |-> TRUE, answer |-> "summary",
          coldest |-> NoBullet, warmest |-> NoBullet, average |-> <<>>]
    ELSE [usedFallback |-> TRUE, answer |-> "summary",
          coldest |-> [city |-> sorted[1].city, temp |-> toFixed1(sorted[1].temp, 10)],
          warmest |-> [city |-> sorted[Len(sorted)].city,
                       temp |-> toFixed1(sorted[Len(sorted)].temp, 10)],
          average |-> toFixed1(sumOfTemps(sorted), 10 * Len(sorted))]

summaryOfReadings(lines, temps) == summaryOf(lines, temps, sortByTemp(temps))

summaryOfLines(lines) == summaryOfReadings(lines, parseLines(lines))

trimAll(lines) == [i \in 1..Len(lines) |-> trim(lines[i])]

heuristicFallback(question, weatherSummary) ==
    summaryOfLines(SelectSeq(trimAll(split(weatherSummary)), LAMBDA l : Len(l) > 0))

(* getAiInsight when no key is configured or the provider fails: the       *)
(* fallback on the summary of the request.                                 *)
fallbackInsight(question) ==
    /\ http.route = "none"
    /\ http' = Respond([http EXCEPT !.route = "getAiInsight",
                                    !.args = [NoArgs EXCEPT !.city = question]],
                       200, "", <<heuristicFallback(question, join(http.ext.summary))>>)
    /\ UNCHANGED <<users, cities, inflight, env>>

----------------------------------------------------------------------------
(* Initial states. The process starts on empty collections; env is what    *)
(* the deployment has configured.                                          *)

Envs == [JWT_SECRET : BOOLEAN, OPENWEATHER_API_KEY : BOOLEAN, GEMINI_API_KEY : BOOLEAN]

NoExchange ==
    [route |-> "none", header |-> <<>>, args |-> NoArgs, ext |-> NoExt,
     userId |-> 0, status |-> 0, message |-> "", body |-> <<>>,
     geoCalls |-> 0, wxCalls |-> 0, aiCalls |-> 0,
     responses |-> 0, nextCalls |-> 0, raised |-> FALSE, repeated |-> FALSE]

(* No dashboard is open. *)
NoRequest == [kind |-> "none"]
NoEvent   == [kind |-> "none", text |-> <<>>]
NoStorage == [auth_token |-> "", auth_user |-> ""]

NoClient ==
    [page |-> "none", mounted |-> FALSE, storage |-> NoStorage, token |-> "",
     cities |-> <<>>, newCityName |-> <<>>, newCityCountry |-> <<>>,
     suggestions |-> <<>>, aiQuestion |-> <<>>, event |-> NoEvent, events |-> 0,
     requests |-> [r \in 1..MaxPending |-> NoRequest]]

EmptyStore ==
    /\ client = NoClient
    /\ users = <<>>
    /\ cities = [id \in CityIds |-> NoCity]
    /\ inflight = [s \in Slots |-> Idle]
    /\ http = NoExchange

----------------------------------------------------------------------------
(* What clients send. *)

UserNames == {"", "Ann"}
Emails    == {"", "a@x", "b@x"}
Passwords == {"", "pw1", "pw2"}

(* Signed tokens exist for registered users only: login alone signs. *)
LiveTokens == {SignedTokens[i] : i \in 1..Len(users)}
DeadTokens == {ExpiredTokens[1], ForgedTokens[1], "garbage"}

LiveHeaders == {<<"Bearer", t>> : t \in LiveTokens}
LongHeaders == {<<"Bearer", t, "x">> : t \in LiveTokens}
BadHeaders  ==
    {<<>>, <<"">>, <<"Bearer">>}
    \cup {<<"Bearer", t>> : t \in DeadTokens}
    \cup {<<"Basic", t>> : t \in LiveTokens}
    \cup {<<"Bearer", "", t>> : t \in LiveTokens}

Headers == LiveHeaders \cup LongHeaders \cup BadHeaders

----------------------------------------------------------------------------
(* The accounts: registration, login and /me, with concurrent requests. *)

InitUsers ==
    /\ EmptyStore
    /\ env \in {e \in Envs : e.OPENWEATHER_API_KEY /\ e.GEMINI_API_KEY}

NextUsers ==
    \/ health
           /\ UNCHANGED client
    \/ \E s \in Slots, n \in UserNames, e \in Emails, p \in Passwords :
           registerStart(s, n, e, p)
           /\ UNCHANGED client
    \/ \E s \in Slots, salt \in Salts : registerFinish(s, salt)
           /\ UNCHANGED client
    \/ \E e \in Emails, p \in Passwords : login(e, p)
           /\ UNCHANGED client
    \/ \E h \in Headers : me(h)
           /\ UNCHANGED client

SpecUsers == InitUsers /\ [][NextUsers]_vars

----------------------------------------------------------------------------
(* Requests to the city routes. The body is drawn only when the guard lets *)
(* the request through, and a provider's answer only when the handler      *)
(* calls the provider.                                                     *)

RECURSIVE SeqsUpTo(_, _)
SeqsUpTo(S, n) ==
    IF n = 0 THEN {<<>>}
    ELSE LET shorter == SeqsUpTo(S, n - 1)
         IN  shorter \cup {Append(q, e) : q \in {t \in shorter : Len(t) = n - 1}, e \in S}

IfPassed(header, S, default) == IF authMiddleware(header).next THEN S ELSE {default}

createCityRequest(S, H, N, C, G, W) ==
    \E s \in {t \in S : IsNextSlot(t)}, h \in H :
      \E n \in IfPassed(h, N, <<>>), c \in IfPassed(h, C, <<>>) :
        \E f \in IF createCityAnswer(h, n, c, <<>>, FALSE, "ok").geoCalls = 1
                 THEN BOOLEAN ELSE {FALSE} :
          \E g \in IF createCityAnswer(h, n, c, <<>>, f, "ok").geoCalls = 1 /\ ~f
                   THEN G ELSE {<<>>} :
            \E w \in IF createCityAnswer(h, n, c, g, f, "ok").wxCalls = 1
                     THEN W ELSE {"ok"} :
                createCityStart(s, h, n, c, g, f, w)

suggestRequest(H, N, C, G) ==
    \E h \in H :
      \E n \in IfPassed(h, N, <<>>), c \in IfPassed(h, C, <<>>) :
        \E f \in IF suggestAnswer(h, n, c, <<>>, FALSE).geoCalls = 1
                 THEN BOOLEAN ELSE {FALSE} :
          \E g \in IF suggestAnswer(h, n, c, <<>>, f).geoCalls = 1 /\ ~f
                   THEN G ELSE {<<>>} :
                suggestCities(h, n, c, g, f)

IdParams == CityIds \cup {MalformedId}

deleteRequest(H, I) ==
    \E h \in H : \E id \in IfPassed(h, I, MalformedId) : deleteCity(h, id)

favoriteRequest(H, I) ==
    \E h \in H :
      \E id \in IfPassed(h, I, MalformedId), v \in IfPassed(h, BOOLEAN, FALSE) :
        toggleFavorite(h, id, v)

(* The weather answers are drawn for the cities the handler will fetch. *)
insightsRequest(H, Q, W, A) ==
    \E h \in H :
      \E q \in IfPassed(h, Q, <<>>) :
        LET reads == authMiddleware(h).next /\ q # JsonNumber /\ trim(q) # <<>>
            n == IF reads /\ env.OPENWEATHER_API_KEY
                 THEN Len(listCitiesForUser(authMiddleware(h).userId)) ELSE 0
            asks == /\ reads /\ env.GEMINI_API_KEY
                    /\ listCitiesForUser(authMiddleware(h).userId) # <<>>
        IN  \E wxs \in [1..n -> W], a \in IF asks THEN A ELSE {"ok"} :
                getInsights(h, q, wxs, a)

weatherRequest(H, I, W) ==
    \E h \in H :
      \E id \in IfPassed(h, I, MalformedId) :
        \E wx \in IF /\ authMiddleware(h).next /\ env.OPENWEATHER_API_KEY
                      /\ findCityByIdForUser(id, authMiddleware(h).userId) # <<>>
                   THEN W ELSE {"ok"} :
            getCityWeather(h, id, wx)

Loc(name, country) == [name |-> name, country |-> country]

----------------------------------------------------------------------------
(* Two registered users: the User collection after Ann and Bob registered  *)
(* (SpecUsers reaches it), every key configured.                           *)

Ann == [id |-> 1, name |-> "Ann", email |-> "a@x", passwordHash |-> bcryptHash("pw1", "s1")]
Bob == [id |-> 2, name |-> "Bob", email |-> "b@x", passwordHash |-> bcryptHash("pw2", "s2")]

AllKeys == [JWT_SECRET |-> TRUE, OPENWEATHER_API_KEY |-> TRUE, GEMINI_API_KEY |-> TRUE]

InitRegistered ==
    /\ client = NoClient
    /\ users = <<Ann, Bob>>
    /\ cities = [id \in CityIds |-> NoCity]
    /\ inflight = [s \in Slots |-> Idle]
    /\ http = NoExchange
    /\ env = AllKeys

FewHeaders == LiveHeaders \cup {<<>>}
ArInFrance == <<Loc(<<"A", "r">>, <<"F", "R">>)>>
ArNowhere  == <<Loc(<<"A", "r">>, NoCountry)>>

----------------------------------------------------------------------------
(* Concurrent createCity requests of the two users. *)

NextCreate ==
    \/ createCityRequest(Slots, FewHeaders, {<<"a", "r">>}, {NoCountry, <<"f", "r">>},
                         {ArInFrance, ArNowhere}, {"ok", "notfound"})
           /\ UNCHANGED client
    \/ \E s \in Slots : createCityFinish(s)
           /\ UNCHANGED client
    \/ deleteRequest(FewHeaders, CityIds)
           /\ UNCHANGED client

SpecCreate == InitRegistered /\ [][NextCreate]_vars

----------------------------------------------------------------------------
(* The cities of the two users: list, create, delete, favorite, weather. *)

NextCities ==
    \/ \E h \in FewHeaders : listCities(h)
           /\ UNCHANGED client
    \/ createCityRequest({1}, FewHeaders, {<<"a", "r">>}, {NoCountry},
                         {ArInFrance, ArNowhere}, {"ok"})
           /\ UNCHANGED client
    \/ createCityFinish(1)
           /\ UNCHANGED client
    \/ deleteRequest(FewHeaders, IdParams)
           /\ UNCHANGED client
    \/ favoriteRequest(FewHeaders, IdParams)
           /\ UNCHANGED client
    \/ weatherRequest(FewHeaders, IdParams, {"ok"})
           /\ UNCHANGED client

SpecCities == InitRegistered /\ [][NextCities]_vars

----------------------------------------------------------------------------
(* Every route, with well-formed and malformed Authorization headers. One  *)
(* user registers; requests suspend one at a time.                         *)

InitRoutes ==
    /\ EmptyStore
    /\ env \in {e \in Envs : e.OPENWEATHER_API_KEY /\ e.GEMINI_API_KEY}

NextRoutes ==
    \/ health
           /\ UNCHANGED client
    \/ \E n \in {"", "Ann"} : registerStart(1, n, "a@x", "pw1")
           /\ UNCHANGED client
    \/ registerFinish(1, "s1")
           /\ UNCHANGED client
    \/ \E p \in {"pw1", "pw2"} : login("a@x", p)
           /\ UNCHANGED client
    \/ \E h \in Headers : me(h)
           /\ UNCHANGED client
    \/ \E h \in Headers : listCities(h)
           /\ UNCHANGED client
    \/ suggestRequest(Headers, {<<"a", "r">>}, {NoCountry}, {ArInFrance})
           /\ UNCHANGED client
    \/ createCityRequest({1}, Headers, {<<"a", "r">>}, {NoCountry}, {ArInFrance}, {"ok"})
           /\ UNCHANGED client
    \/ createCityFinish(1)
           /\ UNCHANGED client
    \/ deleteRequest(Headers, CityIds)
           /\ UNCHANGED client
    \/ favoriteRequest(Headers, CityIds)
           /\ UNCHANGED client
    \/ weatherRequest(Headers, CityIds, {"ok"})
           /\ UNCHANGED client
    \/ insightsRequest(Headers, {<<"a">>}, {"ok"}, {"ok", "fail"})
           /\ UNCHANGED client

SpecRoutes == InitRoutes /\ [][NextRoutes]_vars

----------------------------------------------------------------------------
(* Country codes of every shape, sent by one user to createCity and to     *)
(* suggestCities.                                                          *)

MaxCodeLen == 3

CodeChars == {"f", "R", " ", "1"}
Codes     == SeqsUpTo(CodeChars, MaxCodeLen)

InitCodes ==
    /\ client = NoClient
    /\ users = <<Ann>>
    /\ cities = [id \in CityIds |-> NoCity]
    /\ inflight = [s \in Slots |-> Idle]
    /\ http = NoExchange
    /\ env = AllKeys

NextCodes ==
    \/ createCityRequest({1}, FewHeaders, {<<"a", "r">>}, Codes, {ArInFrance}, {"ok"})
           /\ UNCHANGED client
    \/ createCityFinish(1)
           /\ UNCHANGED client
    \/ suggestRequest(FewHeaders, {<<"a", "r">>}, Codes, {ArInFrance})
           /\ UNCHANGED client

SpecCodes == InitCodes /\ [][NextCodes]_vars

----------------------------------------------------------------------------
(* What the geocoder may answer to createCity: nothing, one place, the     *)
(* same name in two countries, places without a country, names that only   *)
(* contain the query, names in another case or padded with spaces; and the *)
(* weather provider answering, not finding the city, or failing.           *)

GeoAnswers ==
    {<<>>,
     ArInFrance,
     ArNowhere,
     <<Loc(<<"A", "r">>, <<"F", "R">>), Loc(<<"A", "r">>, <<"A", "R">>)>>,
     <<Loc(<<"A", "r">>, NoCountry), Loc(<<"A", "r">>, <<"F", "R">>)>>,
     <<Loc(<<"A", "r", "a">>, <<"F", "R">>), Loc(<<"a", "R">>, <<"a", "r">>)>>,
     <<Loc(<<" ", "A", "r">>, <<"f", "r">>)>>}

WeatherOutcomes == {"ok", "notfound", "error"}

InitGeocode ==
    /\ client = NoClient
    /\ users = <<Ann>>
    /\ cities = [id \in CityIds |-> NoCity]
    /\ inflight = [s \in Slots |-> Idle]
    /\ http = NoExchange
    /\ env \in {e \in Envs : e.JWT_SECRET /\ e.GEMINI_API_KEY}

NextGeocode ==
    \/ createCityRequest({1}, FewHeaders, {<<"a", "r">>, <<"A", "r", " ">>, <<" ">>},
                         {NoCountry, <<"f", "r">>, <<" ", "a", "R">>, <<"f">>},
                         GeoAnswers, WeatherOutcomes)
           /\ UNCHANGED client
    \/ createCityFinish(1)
           /\ UNCHANGED client

SpecGeocode == InitGeocode /\ [][NextGeocode]_vars

----------------------------------------------------------------------------
(* The providers answering, not finding, or failing: one user suggests,    *)
(* creates, fetches weather and asks the AI route; the OpenWeather and     *)
(* Gemini keys are configured or not.                                      *)

InitProviders ==
    /\ client = NoClient
    /\ users = <<Ann>>
    /\ cities = [id \in CityIds |-> NoCity]
    /\ inflight = [s \in Slots |-> Idle]
    /\ http = NoExchange
    /\ env \in {e \in Envs : e.JWT_SECRET}

NextProviders ==
    \/ suggestRequest(FewHeaders, {<<"a", "r">>}, {NoCountry}, {ArInFrance})
           /\ UNCHANGED client
    \/ createCityRequest({1}, FewHeaders, {<<"a", "r">>}, {NoCountry},
                         {ArInFrance, ArNowhere}, WeatherOutcomes)
           /\ UNCHANGED client
    \/ createCityFinish(1)
           /\ UNCHANGED client
    \/ weatherRequest(FewHeaders, CityIds, WeatherOutcomes)
           /\ UNCHANGED client
    \/ insightsRequest(FewHeaders, {<<"a">>, <<" ">>}, WeatherOutcomes, AiOutcomes)
           /\ UNCHANGED client

SpecProviders == InitProviders /\ [][NextProviders]_vars

----------------------------------------------------------------------------
(* The fallback on summaries of up to MaxLines lines: lines of cities      *)
(* whose weather was loaded, with and without a country, with equal and    *)
(* with negative temperatures, padded; and lines that are no reading.      *)

MaxLines == 3

Weather(cityName, country, temperature) ==
    [cityName |-> cityName, country |-> country, temperature |-> temperature,
     description |-> <<"f", "o", "g">>]

Shown ==
    {Weather(<<"A">>, NoCountry, -15),
     Weather(<<"B", " ", "c">>, <<"F", "R">>, 123),
     Weather(<<"D">>, NoCountry, 123),
     Weather(<<"E">>, <<"F", "R">>, -15),
     Weather(<<"G">>, NoCountry, 4),
     Weather(<<"H">>, NoCountry, 0)}

Padded == {<<" ">> \o formatLine(Weather(<<"H">>, NoCountry, 0)) \o <<" ">>}

NoReadings ==
    {CityPrefix \o <<"X">> \o Bar \o <<"9", ".", "9">>,
     CityPrefix \o <<"X">> \o Bar \o DegreesC,
     CityPrefix \o <<"X">> \o Bar \o <<"9", ".">> \o DegreesC,
     <<"X">> \o Bar \o <<"9", ".", "9">> \o DegreesC,
     <<" ">>}

SummaryLines ==
    {formatLine(w) : w \in Shown \ {Weather(<<"H">>, NoCountry, 0)}}
    \cup Padded
    \cup NoReadings

InitFallback ==
    /\ client = NoClient
    /\ users = <<Ann>>
    /\ cities = [id \in CityIds |-> NoCity]
    /\ inflight = [s \in Slots |-> Idle]
    /\ env \in {e \in Envs : e.JWT_SECRET /\ e.OPENWEATHER_API_KEY /\ ~e.GEMINI_API_KEY}
    /\ \E lines \in SeqsUpTo(SummaryLines, MaxLines) :
           http = [NoExchange EXCEPT !.ext.summary = lines]

NextFallback ==
    \/ fallbackInsight(<<"a">>)
           /\ UNCHANGED client

SpecFallback == InitFallback /\ [][NextFallback]_vars

----------------------------------------------------------------------------
(* Every route again, with bodies whose fields are not strings: the name   *)
(* sent to createCity and the question sent to the AI route.               *)

NextResponses ==
    \/ health
           /\ UNCHANGED client
    \/ \E n \in {"", "Ann"} : registerStart(1, n, "a@x", "pw1")
           /\ UNCHANGED client
    \/ registerFinish(1, "s1")
           /\ UNCHANGED client
    \/ \E p \in {"pw1", "pw2"} : login("a@x", p)
           /\ UNCHANGED client
    \/ \E h \in Headers : me(h)
           /\ UNCHANGED client
    \/ \E h \in Headers : listCities(h)
           /\ UNCHANGED client
    \/ suggestRequest(Headers, {<<"a", "r">>}, {NoCountry}, {ArInFrance})
           /\ UNCHANGED client
    \/ createCityRequest({1}, Headers, {<<"a", "r">>, JsonNumber}, {NoCountry},
                         {ArInFrance}, WeatherOutcomes)
           /\ UNCHANGED client
    \/ createCityFinish(1)
           /\ UNCHANGED client
    \/ deleteRequest(Headers, IdParams)
           /\ UNCHANGED client
    \/ favoriteRequest(Headers, IdParams)
           /\ UNCHANGED client
    \/ weatherRequest(Headers, IdParams, WeatherOutcomes)
           /\ UNCHANGED client
    \/ insightsRequest(Headers, {<<"a">>, <<>>, JsonNumber}, WeatherOutcomes, AiOutcomes)
           /\ UNCHANGED client

SpecResponses == InitRoutes /\ [][NextResponses]_vars

----------------------------------------------------------------------------
(* The dashboard: frontend/src/app/dashboard/page.tsx and lib/api.ts.      *)
(* client.token is the React state, client.storage the localStorage of the *)
(* origin, client.page where the tab is. A request is sent, then served by *)
(* the backend, then its answer is delivered to the handler that awaits    *)
(* it; requests in flight are served and delivered in any order.           *)

Pending == 1..MaxPending

FreeRequests(c) == {r \in Pending : c.requests[r] = NoRequest}

InFlight(c, kind) == {r \in Pending : c.requests[r].kind = kind}

(* apiFetch up to its fetch: the path and body, the token as a Bearer      *)
(* header.                                                                 *)
apiFetch(token, kind, args) ==
    [kind |-> kind, header |-> <<"Bearer", token>>, args |-> args,
     state |-> "sent", status |-> 0, body |-> <<>>]

Send(c, kind, args) ==
    [c EXCEPT !.requests[Least(FreeRequests(c))] = apiFetch(c.token, kind, args)]

Event(kind, text) == [kind |-> kind, text |-> text]

(* The tab shows the dashboard, its first effects have run, and the user  *)
(* has acted fewer than MaxEvents times.                                   *)
Showing ==
    /\ client.page = "dashboard"
    /\ client.mounted
    /\ client.events < MaxEvents

(* The user has acted: event is what they did last. *)
Acted(c, kind, text) == [c EXCEPT !.event = Event(kind, text), !.events = @ + 1]

(* The token effect, and the load effect of the render that follows it. *)
mountDashboard ==
    /\ client.page = "dashboard"
    /\ ~client.mounted
    /\ client' =
          IF client.storage.auth_token = ""
          THEN [client EXCEPT !.mounted = TRUE, !.page = "login",
                              !.event = Event("mount", <<>>)]
          ELSE Send([client EXCEPT !.mounted = TRUE,
                                   !.token = client.storage.auth_token,
                                   !.event = Event("mount", <<>>)],
                    "load", NoArgs)
    /\ UNCHANGED server

(* The request of the suggestions effect left to itself. *)
abortNothing(c) == c

(* The cleanup of the suggestions effect: controller.abort() rejects the   *)
(* fetch that is still awaited, whose catch empties the suggestions.       *)
abortSuggest(c) ==
    IF InFlight(c, "suggest") = {} THEN c
    ELSE [c EXCEPT !.suggestions = <<>>,
                   !.requests = [r \in Pending |->
                                   IF c.requests[r].kind = "suggest" THEN NoRequest
                                   ELSE c.requests[r]]]

(* The suggestions effect, run when newCityName has changed. *)
suggestEffect(c) ==
    IF c.token = "" THEN c
    ELSE IF trim(c.newCityName) = <<>>
    THEN [abortSuggest(c) EXCEPT !.suggestions = <<>>]
    ELSE Send(abortSuggest(c), "suggest", [NoArgs EXCEPT !.city = trim(c.newCityName)])

(* The user edits the city name: onChange={(e) => setNewCityName(...)}. *)
typeCityName(name) ==
    /\ Showing
    /\ name # client.newCityName
    /\ trim(name) # <<>> => FreeRequests(abortSuggest(client)) # {}
    /\ client' = suggestEffect([Acted(client, "name", name) EXCEPT !.newCityName = name])
    /\ UNCHANGED server

(* The user edits the country code, or picks it from a suggestion. *)
typeCityCountry(country) ==
    /\ Showing
    /\ country # client.newCityCountry
    /\ client' = [Acted(client, "country", country) EXCEPT !.newCityCountry = country]
    /\ UNCHANGED server

(* The form is submitted; its button is disabled while a city is added. *)
handleAddCity ==
    /\ Showing
    /\ InFlight(client, "add") = {}
    /\ client.token # ""
    /\ trim(client.newCityName) # <<>>
    /\ FreeRequests(client) # {}
    /\ client' = Send(Acted(client, "add", <<>>), "add",
                      [NoArgs EXCEPT !.city = trim(client.newCityName),
                                     !.country = trim(client.newCityCountry)])
    /\ UNCHANGED server

(* Remove, confirmed, on the card of a city of the list. *)
handleDeleteCity(i) ==
    /\ Showing
    /\ i \in 1..Len(client.cities)
    /\ client.token # ""
    /\ FreeRequests(client) # {}
    /\ client' = Send(Acted(client, "delete", <<>>), "delete",
                      [NoArgs EXCEPT !.id = client.cities[i].id])
    /\ UNCHANGED server

(* The star on the card of a city of the list: the flag of the card,       *)
(* inverted.                                                               *)
handleToggleFavorite(i) ==
    /\ Showing
    /\ i \in 1..Len(client.cities)
    /\ client.token # ""
    /\ FreeRequests(client) # {}
    /\ client' = Send(Acted(client, "favorite", <<>>), "favorite",
                      [NoArgs EXCEPT !.id = client.cities[i].id,
                                     !.isFavorite = ~client.cities[i].isFavorite])
    /\ UNCHANGED server

(* Load weather, on the card of a city of the list. *)
loadWeatherForCity(i) ==
    /\ Showing
    /\ i \in 1..Len(client.cities)
    /\ client.token # ""
    /\ FreeRequests(client) # {}
    /\ client' = Send(Acted(client, "weather", <<>>), "weather",
                      [NoArgs EXCEPT !.id = client.cities[i].id])
    /\ UNCHANGED server

(* The user edits the question of the chat widget. *)
typeQuestion(text) ==
    /\ Showing
    /\ text # client.aiQuestion
    /\ client' = [Acted(client, "question", text) EXCEPT !.aiQuestion = text]
    /\ UNCHANGED server

(* handleAskAi as the render that c is has bound it: it reads the token    *)
(* and the question of that render.                                        *)
AsksAi(c) == c.token # "" /\ trim(c.aiQuestion) # <<>>

handleAskAi(c) ==
    IF AsksAi(c) THEN Send(c, "ask", [NoArgs EXCEPT !.city = trim(c.aiQuestion)]) ELSE c

(* The Ask button, disabled while an answer is awaited or the question is  *)
(* blank.                                                                  *)
clickAsk ==
    /\ Showing
    /\ InFlight(client, "ask") = {}
    /\ trim(client.aiQuestion) # <<>>
    /\ AsksAi(client) => FreeRequests(client) # {}
    /\ client' = handleAskAi(Acted(client, "ask", <<>>))
    /\ UNCHANGED server

(* A preset chip: setAiQuestion(preset); handleAskAi(). The handler is the *)
(* one of the render in which the chip was clicked.                        *)
clickPreset(preset) ==
    /\ Showing
    /\ AsksAi(client) => FreeRequests(client) # {}
    /\ client' = [handleAskAi(Acted(client, "preset", preset)) EXCEPT !.aiQuestion = preset]
    /\ UNCHANGED server

(* The backend has handled request r: x is the exchange. A handler that    *)
(* is suspended has not answered yet.                                      *)
Served(r, x) ==
    [client EXCEPT !.event = Event("serve", <<>>),
                   !.requests[r] =
                       IF x.status = 0 THEN [@ EXCEPT !.state = "suspended"]
                       ELSE [@ EXCEPT !.state = "answered", !.status = x.status,
                                      !.body = x.body]]

Sent(kind) == {r \in Pending : client.requests[r].kind = kind
                                /\ client.requests[r].state = "sent"}

serveLoad ==
    \E r \in Sent("load") :
        /\ listCities(client.requests[r].header)
        /\ client' = Served(r, http')

serveAdd(G, W) ==
    \E r \in Sent("add") :
        /\ createCityRequest({1}, {client.requests[r].header},
                             {client.requests[r].args.city},
                             {client.requests[r].args.country}, G, W)
        /\ client' = Served(r, http')

serveAddFinish ==
    \E r \in {q \in Pending : client.requests[q].kind = "add"
                              /\ client.requests[q].state = "suspended"} :
        /\ createCityFinish(1)
        /\ client' = Served(r, http')

serveDelete ==
    \E r \in Sent("delete") :
        /\ deleteCity(client.requests[r].header, client.requests[r].args.id)
        /\ client' = Served(r, http')

serveFavorite ==
    \E r \in Sent("favorite") :
        /\ toggleFavorite(client.requests[r].header, client.requests[r].args.id,
                          client.requests[r].args.isFavorite)
        /\ client' = Served(r, http')

serveWeather(W) ==
    \E r \in Sent("weather") :
        /\ weatherRequest({client.requests[r].header}, {client.requests[r].args.id}, W)
        /\ client' = Served(r, http')

serveSuggest(G) ==
    \E r \in Sent("suggest") :
        /\ suggestRequest({client.requests[r].header}, {client.requests[r].args.city},
                          {NoCountry}, G)
        /\ client' = Served(r, http')

serveAsk(W, A) ==
    \E r \in Sent("ask") :
        /\ insightsRequest({client.requests[r].header}, {client.requests[r].args.city},
                           W, A)
        /\ client' = Served(r, http')

(* apiFetch on a 401: both keys are removed and the tab goes to /login. *)
apiFetchKeepsSession(c) == c

apiFetchUnauthorized(c) == [c EXCEPT !.storage = NoStorage, !.page = "login"]

(* What the awaiting handler does with the data of a 2xx answer. *)
Resolved2xx(c, q) ==
    IF q.kind = "load" THEN [c EXCEPT !.cities = q.body]
    ELSE IF q.kind = "add"
    THEN LET added == [c EXCEPT !.cities = <<q.body[1]>> \o c.cities,
                                !.newCityName = <<>>, !.newCityCountry = <<>>]
         IN  IF c.newCityName # <<>> THEN suggestEffect(added) ELSE added
    ELSE IF q.kind = "delete"
    THEN [c EXCEPT !.cities = SelectSeq(c.cities, LAMBDA v : v.id # q.args.id)]
    ELSE IF q.kind = "favorite"
    THEN [c EXCEPT !.cities = [i \in 1..Len(c.cities) |->
                                  IF c.cities[i].id = q.args.id THEN q.body[1]
                                  ELSE c.cities[i]]]
    ELSE IF q.kind = "suggest" THEN [c EXCEPT !.suggestions = q.body]
    ELSE c

(* The rest of apiFetch and of the handler that awaits it, for the answer  *)
(* of request r. The catch of the suggestions effect empties the list.     *)
deliver(r) ==
    /\ client.page = "dashboard"
    /\ client.requests[r].kind # "none"
    /\ client.requests[r].state = "answered"
    /\ LET q == client.requests[r]
           c == [client EXCEPT !.requests[r] = NoRequest,
                               !.event = Event("deliver", <<>>)]
           failed == IF q.kind = "suggest" THEN [c EXCEPT !.suggestions = <<>>] ELSE c
       IN  client' = IF q.status = 401 THEN apiFetchUnauthorized(failed)
                     ELSE IF q.status \notin 200..299 THEN failed
                     ELSE Resolved2xx(c, q)
    /\ UNCHANGED server

(* The tab opens the dashboard with what the origin has stored. *)
Dashboard(storage) == [NoClient EXCEPT !.page = "dashboard", !.storage = storage]

StoredSession(token) == [auth_token |-> token, auth_user |-> "Ann"]

----------------------------------------------------------------------------
(* The chat widget of a signed-in user: the question typed, the Ask button *)
(* and the preset chips. The presets stand for the three texts of the      *)
(* chips.                                                                  *)

Presets == {<<"w", "a", "r", "m">>, <<"b", "e", "s", "t">>, <<"r", "a", "i", "n">>}

TypedQuestions == {<<>>, <<" ">>, <<"a">>, <<"a", " ">>}

InitChat ==
    /\ users = <<Ann>>
    /\ cities = [id \in CityIds |-> NoCity]
    /\ inflight = [s \in Slots |-> Idle]
    /\ http = NoExchange
    /\ env = AllKeys
    /\ client = Dashboard(StoredSession(SignedTokens[1]))

NextChat ==
    \/ mountDashboard
    \/ \E text \in TypedQuestions : typeQuestion(text)
    \/ clickAsk
    \/ \E preset \in Presets : clickPreset(preset)
    \/ serveLoad
    \/ serveAsk({"ok"}, {"ok"})
    \/ \E r \in Pending : deliver(r)

SpecChat == InitChat /\ [][NextChat]_vars

----------------------------------------------------------------------------
(* A tab that opens the dashboard with no token stored, with the token of  *)
(* a login, or with a token that has expired, on a backend whose secret is *)
(* configured or not. The user has one city.                               *)

ArOfAnn ==
    [id |-> 1, userId |-> 1, name |-> <<"A", "r">>, nameNormalized |-> <<"a", "r">>,
     country |-> <<"F", "R">>, isFavorite |-> FALSE]

InitSession ==
    /\ users = <<Ann>>
    /\ cities = [id \in CityIds |-> IF id = 1 THEN ArOfAnn ELSE NoCity]
    /\ inflight = [s \in Slots |-> Idle]
    /\ http = NoExchange
    /\ env \in {e \in Envs : e.OPENWEATHER_API_KEY /\ e.GEMINI_API_KEY}
    /\ \E token \in {"", SignedTokens[1], ExpiredTokens[1]} :
           client = Dashboard(IF token = "" THEN NoStorage ELSE StoredSession(token))

NextSession ==
    \/ mountDashboard
    \/ \E name \in {<<>>, <<"a", "r">>} : typeCityName(name)
    \/ handleAddCity
    \/ \E i \in 1..MaxCities : handleDeleteCity(i)
    \/ \E i \in 1..MaxCities : handleToggleFavorite(i)
    \/ \E i \in 1..MaxCities : loadWeatherForCity(i)
    \/ \E text \in {<<>>, <<"a">>} : typeQuestion(text)
    \/ clickAsk
    \/ \E preset \in {<<"w", "a", "r", "m">>} : clickPreset(preset)
    \/ serveLoad
    \/ serveSuggest({ArInFrance})
    \/ serveAdd({ArNowhere}, {"ok"})
    \/ serveAddFinish
    \/ serveDelete
    \/ serveFavorite
    \/ serveWeather({"ok"})
    \/ serveAsk({"ok"}, {"ok"})
    \/ \E r \in Pending : deliver(r)

SpecSession == InitSession /\ [][NextSession]_vars

----------------------------------------------------------------------------
(* One session of a signed-in user who has one city: the list is loaded,   *)
(* cities are added, removed and starred, with requests in flight          *)
(* together.                                                               *)

InitCityList ==
    /\ users = <<Ann>>
    /\ cities = [id \in CityIds |-> IF id = 1 THEN ArOfAnn ELSE NoCity]
    /\ inflight = [s \in Slots |-> Idle]
    /\ http = NoExchange
    /\ env = AllKeys
    /\ client = Dashboard(StoredSession(SignedTokens[1]))

NextCityList ==
    \/ mountDashboard
    \/ \E name \in {<<"a", "r">>} : typeCityName(name)
    \/ \E country \in {<<"f", "r">>} : typeCityCountry(country)
    \/ handleAddCity
    \/ \E i \in 1..MaxCities : handleDeleteCity(i)
    \/ \E i \in 1..MaxCities : handleToggleFavorite(i)
    \/ serveLoad
    \/ serveSuggest({ArInFrance})
    \/ serveAdd({ArNowhere}, {"ok"})
    \/ serveAddFinish
    \/ serveDelete
    \/ serveFavorite
    \/ \E r \in Pending : deliver(r)

SpecCityList == InitCityList /\ [][NextCityList]_vars

----------------------------------------------------------------------------
(* The city name edited while suggestions are fetched: every edit aborts   *)
(* the request of the edit before it. The geocoder knows one place, or     *)
(* none, or fails; the OpenWeather key is configured or not.               *)

TypedNames == {<<>>, <<"a">>, <<"a", "r">>, <<"a", "r", " ">>}

InitSuggest ==
    /\ users = <<Ann>>
    /\ cities = [id \in CityIds |-> NoCity]
    /\ inflight = [s \in Slots |-> Idle]
    /\ http = NoExchange
    /\ env \in {e \in Envs : e.JWT_SECRET /\ e.GEMINI_API_KEY}
    /\ client = Dashboard(StoredSession(SignedTokens[1]))

NextSuggest ==
    \/ mountDashboard
    \/ \E name \in TypedNames : typeCityName(name)
    \/ serveLoad
    \/ serveSuggest({ArInFrance, <<>>})
    \/ \E r \in Pending : deliver(r)

SpecSuggest == InitSuggest /\ [][NextSuggest]_vars

----------------------------------------------------------------------------
(* Properties of the dashboard. *)

(* C23: a click on a preset chip sends one request to /ai/insights, and    *)
(* its question is the text of the chip, whatever the question field held. *)
C23_PresetAsksPreset ==
    [][client'.event.kind = "preset"
       => \E r \in Pending :
             /\ client.requests[r] = NoRequest
             /\ client'.requests[r].kind = "ask"
             /\ client'.requests[r].state = "sent"
             /\ client'.requests[r].args.city = client'.event.text
             /\ \A q \in Pending \ {r} : client'.requests[q] = client.requests[q]]_vars

(* C29: whenever the dashboard awaits no request, its list holds exactly   *)
(* the cities the server stores for the user, with the same favorite       *)
(* flags.                                                                  *)
C29_ListIsServers ==
    ( /\ client.page = "dashboard"
      /\ client.mounted
      /\ \A r \in Pending : client.requests[r] = NoRequest )
    => /\ {client.cities[i] : i \in 1..Len(client.cities)}
            = {CityView(cities[id]) :
                  id \in {d \in StoredIds :
                             cities[d].userId = jwtVerify(client.token).userId}}
       /\ \A i, j \in 1..Len(client.cities) :
              client.cities[i].id = client.cities[j].id => i = j

(* The suggestion requests in flight that ask for the name as it is now. *)
AwaitedSuggestions(c) ==
    {r \in Pending : /\ c.requests[r].kind = "suggest"
                     /\ c.requests[r].args.city = trim(c.newCityName)}

(* C30: when the answer to the request for the name as it is now is        *)
(* delivered, the suggestions shown are that answer (none if the request   *)
(* failed); and from then on, while the name stays as it is, nothing       *)
(* changes them: no answer to, and no abort of, a request for an earlier   *)
(* name.                                                                   *)
C30_SuggestionsAreCurrent ==
    [][/\ \A r \in AwaitedSuggestions(client) :
             ( /\ client'.event.kind = "deliver"
               /\ client.requests[r].state = "answered"
               /\ client'.requests[r] = NoRequest )
             => client'.suggestions =
                    IF client.requests[r].status = 200 THEN client.requests[r].body
                    ELSE <<>>
       /\ ( /\ AwaitedSuggestions(client) = {}
            /\ client'.newCityName = client.newCityName )
          => client'.suggestions = client.suggestions]_vars

(* "a" was typed, then "ar" before the first request was answered; the     *)
(* answer for "ar" is shown and nothing is awaited.                        *)
C30_Witness ==
    /\ client.events >= 2
    /\ client.newCityName = <<"a", "r">>
    /\ client.suggestions = <<[name |-> <<"A", "r">>, country |-> <<"F", "R">>]>>
    /\ client.event.kind = "deliver"
    /\ \A r \in Pending : client.requests[r] = NoRequest

(* A request that this step has sent. *)
Issued(r) ==
    /\ client'.requests[r] # client.requests[r]
    /\ client'.requests[r].kind # "none"
    /\ client'.requests[r].state = "sent"

(* C24: the dashboard sends a request only while it holds a token, which   *)
(* the request carries; opened with no auth_token stored it goes to        *)
(* /login; and when a 401 is delivered it removes auth_token and auth_user *)
(* from the storage and goes to /login.                                    *)
C24_AuthGuard ==
    [][/\ \A r \in Pending :
             Issued(r) => /\ client'.token # ""
                          /\ client'.requests[r].header = <<"Bearer", client'.token>>
       /\ client'.token = "" => \A r \in Pending : ~Issued(r)
       /\ ( /\ ~client.mounted
            /\ client'.mounted
            /\ client.storage.auth_token = "" )
          => /\ client'.page = "login"
             /\ client'.token = ""
       /\ ( /\ client'.event.kind = "deliver"
            /\ \E r \in Pending :
                  /\ client.requests[r].kind # "none"
                  /\ client.requests[r].state = "answered"
                  /\ client.requests[r].status = 401
                  /\ client'.requests[r] = NoRequest )
          => /\ client'.storage = NoStorage
             /\ client'.page = "login"]_vars

(* The dashboard was opened with an expired token, sent requests with it   *)
(* and was answered 401: the storage is empty and the tab is at /login.    *)
C24_Witness ==
    /\ client.event.kind = "deliver"
    /\ client.token = ExpiredTokens[1]
    /\ client.storage = NoStorage
    /\ client.page = "login"
    /\ \E r \in Pending : client.requests[r].kind # "none"

----------------------------------------------------------------------------
(* Properties of the accounts. *)

RegisteredEmails == {users[i].email : i \in 1..Len(users)}

(* The password a stored user registered with: the one its hash was made of. *)
RegisteredPassword(email) == findUserByEmail(email)[1].passwordHash.digest[1]

IssuesToken == http.body # <<>>

C9_UniqueEmail ==
    \A i, j \in 1..Len(users) : users[i].email = users[j].email => i = j

(* Two registrations of one email passed the existence check together and  *)
(* the second insert met the first one's document.                         *)
C9_Witness ==
    /\ http.route = "register"
    /\ http.status = 500
    /\ http.args.email \in RegisteredEmails

(* C10: a registration that creates no user because its email is taken is  *)
(* answered 409.                                                           *)
C10_TakenIs409 ==
    ( /\ http.route = "register"
      /\ http.status \notin {0, 201}
      /\ http.args.email \in RegisteredEmails )
    => http.status = 409

(* C21: a registration answered 201 carries, with the new user's info, a   *)
(* token that verifies as that user's.                                     *)
C21_RegisterIssuesToken ==
    ( /\ http.route = "register"
      /\ http.status = 201 )
    => /\ http.body[1].email = http.args.email
       /\ "token" \in DOMAIN http.body[1]
       /\ jwtVerify(http.body[1].token).ok
       /\ jwtVerify(http.body[1].token).userId = http.body[1].id

(* C15: a stored user record is never modified or removed; the collection  *)
(* changes only by a registration answered 201, which adds one record;     *)
(* login, the city routes and the AI route leave it as it was.             *)
C15_UsersAppendOnly ==
    [][/\ Len(users') >= Len(users)
       /\ \A i \in 1..Len(users) : users'[i] = users[i]
       /\ users' # users
          => /\ http'.route = "register"
             /\ http'.status = 201
             /\ Len(users') = Len(users) + 1
       /\ http'.route # "register" => users' = users]_vars

(* The registered user has logged in, stored a city and asked the AI route. *)
C15_Witness ==
    /\ http.route = "getInsights"
    /\ http.status = 200
    /\ Len(users) = 1
    /\ users[1].passwordHash = bcryptHash("pw1", "s1")

----------------------------------------------------------------------------
(* Properties of the city collection. *)

SameKey(c, d) ==
    /\ c.userId = d.userId
    /\ c.nameNormalized = d.nameNormalized
    /\ c.country = d.country

(* C1: no two stored cities have the same (owner, normalized name,         *)
(* country), whatever the interleaving of the createCity requests.         *)
C1_UniqueCityKey ==
    \A i, j \in StoredIds : SameKey(cities[i], cities[j]) => i = j

(* A createCity request got as far as the insert and was refused by the    *)
(* index, and two cities are stored.                                       *)
C1_Witness ==
    /\ http.route = "createCity"
    /\ http.status = 400
    /\ http.wxCalls = 1
    /\ http.ext.wx = <<"ok">>
    /\ Cardinality(StoredIds) = 2

(* The document a createCity exchange resolved to, when the geocoder       *)
(* answered and the name was found and unambiguous; none otherwise.        *)
Resolved(x) ==
    IF /\ x.route = "createCity" /\ x.userId # 0
       /\ x.geoCalls = 1 /\ ~x.ext.geoFails
       /\ createCityCandidates(x.args.city, x.args.country, x.ext.geo) # <<>>
       /\ \/ toUpperCase(trim(x.args.country)) # NoCountry
          \/ Cardinality(distinctCountries(
                 createCityCandidates(x.args.city, x.args.country, x.ext.geo))) <= 1
    THEN {createCityPayload(
             createCityCandidates(x.args.city, x.args.country, x.ext.geo)[1])}
    ELSE {}

(* A stored city has the key the exchange resolved to. *)
ResolvedIsStored(x) ==
    \E p \in Resolved(x), id \in StoredIds :
        /\ cities[id].userId = x.userId
        /\ cities[id].nameNormalized = toLowerCase(p.nameNormalized)
        /\ cities[id].country = p.country

DuplicateMessage == "City already exists in your list"

(* C11 as stated: every answered createCity request whose resolved key is  *)
(* that of a stored city is answered 400 with the duplicate message and    *)
(* leaves the collection as it was.                                        *)
C11_AsStated ==
    [][( /\ http'.status # 0
         /\ ResolvedIsStored(http') )
       => /\ http'.status = 400
          /\ http'.message = DuplicateMessage
          /\ cities' = cities]_vars

(* C11, amended: a createCity request whose resolved key is that of a       *)
(* stored city is answered 400 and leaves the collection as it was; the    *)
(* message is the duplicate message unless the weather provider answered   *)
(* 'not found' for the city, and then it is the weather message.           *)
C11_DuplicateRejected ==
    [][( /\ http'.status # 0
         /\ ResolvedIsStored(http') )
       => /\ http'.status = 400
          /\ cities' = cities
          /\ http'.message =
                IF weatherRejects(http'.ext.wx[1])
                THEN "We couldn't load weather for this city. It may not exist or be supported."
                ELSE DuplicateMessage]_vars

(* The user sent a city it has stored, the weather provider answered, and  *)
(* the insert was refused.                                                 *)
C11_Witness ==
    /\ http.route = "createCity"
    /\ http.status = 400
    /\ http.message = DuplicateMessage
    /\ http.ext.wx = <<"ok">>
    /\ ResolvedIsStored(http)
    /\ Cardinality(StoredIds) = 1

(* C12: createCity answers 400 with the duplicate message only when the     *)
(* unique index refused the insert, and a request whose geocoding call     *)
(* failed is answered 500.                                                 *)
C12_GeocoderFailureIs500 ==
    /\ ( /\ http.route = "createCity"
         /\ http.status = 400
         /\ http.message = DuplicateMessage )
       => ResolvedIsStored(http)
    /\ ( /\ http.route = "createCity"
         /\ http.status # 0
         /\ http.ext.geoFails )
       => http.status = 500

(* The geocoder's answer makes the requested name found and unambiguous:   *)
(* with a country code some place of that name lies in the country;        *)
(* without one there is a place of that name and no two places of that     *)
(* name lie in different countries.                                        *)
FoundUnambiguous(x) ==
    LET geo == x.ext.geo
        name == toLowerCase(trim(x.args.city))
        code == toUpperCase(trim(x.args.country))
        exact == {i \in 1..Len(geo) :
                     geo[i].name # <<>> /\ toLowerCase(trim(geo[i].name)) = name}
    IN  IF code # <<>>
        THEN \E i \in exact : toUpperCase(geo[i].country) = code
        ELSE /\ exact # {}
             /\ \A i, j \in exact :
                    geo[i].country # <<>> /\ geo[j].country # <<>>
                    => toUpperCase(geo[i].country) = toUpperCase(geo[j].country)

(* C13: a city is added to the collection only by a createCity request     *)
(* whose name the geocoder's answer made found and unambiguous; a request  *)
(* it did not is answered 400 and leaves the collection as it was.         *)
C13_PersistsOnlyResolved ==
    [][/\ StoredIds' \ StoredIds # {}
          => /\ http'.route = "createCity"
             /\ http'.status = 201
             /\ FoundUnambiguous(http')
       /\ ( /\ http'.route = "createCity"
            /\ http'.userId # 0
            /\ http'.status # 0
            /\ ~FoundUnambiguous(http') )
          => /\ http'.status = 400
             /\ cities' = cities]_vars

(* The geocoder answered the name in two countries, no code was sent, and  *)
(* the request was turned away while a city is stored.                     *)
C13_Witness ==
    /\ http.route = "createCity"
    /\ http.status = 400
    /\ http.args.country = NoCountry
    /\ Len(http.ext.geo) = 2
    /\ ~FoundUnambiguous(http)
    /\ StoredIds # {}

(* C16: every stored city has nameNormalized = lowercase(name). *)
C16_NormalizedIsLowercase ==
    \A id \in StoredIds : cities[id].nameNormalized = toLowerCase(cities[id].name)

(* A city is stored whose name has upper-case letters and a leading space. *)
C16_Witness ==
    \E id \in StoredIds :
        /\ cities[id].name = <<" ", "A", "r">>
        /\ cities[id].nameNormalized = <<" ", "a", "r">>

C25_StoredOnlyWithWeather ==
    [][StoredIds' \ StoredIds # {}
       => /\ http'.route = "createCity"
          /\ http'.ext.wx = <<"ok">>]_vars

(* C26: on a 201 of createCity the stored name, trimmed and lower-cased,   *)
(* is the typed name trimmed and lower-cased, and when a country code was  *)
(* sent the stored country is that code, trimmed, in upper case.           *)
C26_StoredIsTyped ==
    [][( /\ http'.route = "createCity"
         /\ http'.status = 201 )
       => \E id \in StoredIds' \ StoredIds :
             /\ http'.body[1] = CityView(cities'[id])
             /\ toLowerCase(trim(cities'[id].name)) = toLowerCase(trim(http'.args.city))
             /\ trim(http'.args.country) # <<>>
                => cities'[id].country = toUpperCase(trim(http'.args.country))]_vars

(* C26 as stated: the stored country is the code that was sent, in upper   *)
(* case, with whatever surrounds it.                                       *)
C26_AsStated ==
    [][( /\ http'.route = "createCity"
         /\ http'.status = 201
         /\ trim(http'.args.country) # <<>> )
       => \E id \in StoredIds' \ StoredIds :
             cities'[id].country = toUpperCase(http'.args.country)]_vars

(* A padded name in upper case and a padded code in mixed case were sent;  *)
(* the geocoder's place of that name, in that country, is stored.          *)
C26_Witness ==
    /\ http.route = "createCity"
    /\ http.status = 201
    /\ http.args.city = <<"A", "r", " ">>
    /\ http.args.country = <<" ", "a", "R">>
    /\ http.body[1].name = <<"a", "R">>
    /\ http.body[1].country = <<"A", "R">>

(* C27: toggleFavorite and getCityWeather of one user with the id of a     *)
(* city stored by another user are answered 404, leave every city as it    *)
(* was and call no weather provider.                                       *)
C27_OthersCityIs404 ==
    [][( /\ http'.route \in {"toggleFavorite", "getCityWeather"}
         /\ http'.userId # 0
         /\ Stored(http'.args.id)
         /\ cities[http'.args.id].userId # http'.userId )
       => /\ http'.status = 404
          /\ http'.body = <<>>
          /\ cities' = cities
          /\ http'.wxCalls = 0]_vars

(* A user tried to make a favorite of the other user's city, which is not  *)
(* one.                                                                    *)
C27_Witness ==
    /\ http.route = "toggleFavorite"
    /\ http.status = 404
    /\ http.args.isFavorite
    /\ Stored(http.args.id)
    /\ cities[http.args.id].userId # http.userId
    /\ ~cities[http.args.id].isFavorite

OwnedBy(userId) == {id \in StoredIds : cities[id].userId = userId}

BodySet == {http.body[i] : i \in 1..Len(http.body)}

(* C4: listCities answers exactly the stored cities of the requester, and  *)
(* no request of another user changes what it would answer.                *)
C4_ListIsOwnCities ==
    /\ [](http.route = "listCities" /\ http.status = 200
            => /\ BodySet = {CityView(cities[id]) : id \in OwnedBy(http.userId)}
               /\ Len(http.body) = Cardinality(OwnedBy(http.userId)))
    /\ [][\A a \in UserIds :
            http'.userId # a => listCitiesForUser(a)' = listCitiesForUser(a)]_vars

C4_Witness ==
    /\ http.route = "listCities"
    /\ http.status = 200
    /\ Len(http.body) = 1
    /\ Cardinality(StoredIds) = 2

(* C5: deleteCity with the id of a city of another user leaves the         *)
(* collection as it was and answers 204 or 404.                            *)
C5_DeleteOthersCity ==
    [][( /\ http'.route = "deleteCity"
         /\ http'.status # 401
         /\ Stored(http'.args.id)
         /\ cities[http'.args.id].userId # http'.userId )
       => /\ cities' = cities
          /\ http'.status \in {204, 404}]_vars

C5_Witness ==
    /\ http.route = "deleteCity"
    /\ http.status = 204
    /\ Stored(http.args.id)
    /\ cities[http.args.id].userId # http.userId

----------------------------------------------------------------------------
(* Properties of the calls to the providers. *)

AiFailed(x) == x.ext.ai \in {"fail", "nobody"}

(* C17: getAiInsight never raises to getInsights (the route answers 200    *)
(* whenever it calls it); usedFallback is true exactly when no AI key is   *)
(* configured or the call to the provider failed; without a key no call is *)
(* made, with one exactly one.                                             *)
C17_FallbackExactly ==
    ( /\ http.route = "getInsights"
      /\ http.userId # 0
      /\ http.status # 400 )
    => /\ http.status = 200
       /\ http.body[1].usedFallback = (~env.GEMINI_API_KEY \/ AiFailed(http))
       /\ ~env.GEMINI_API_KEY => http.aiCalls = 0 /\ http.ext.ai = "none"
       /\ env.GEMINI_API_KEY => http.aiCalls = 1

(* The provider failed on a request about two cities and the route         *)
(* answered with the fallback.                                             *)
C17_Witness ==
    /\ http.route = "getInsights"
    /\ http.status = 200
    /\ env.GEMINI_API_KEY
    /\ http.ext.ai = "fail"
    /\ http.body[1].usedFallback
    /\ Len(http.ext.wx) = 2

----------------------------------------------------------------------------
(* Properties of the guard and of input validation. *)

GuardedRoutes ==
    {"me", "listCities", "createCity", "suggestCities", "deleteCity",
     "toggleFavorite", "getCityWeather", "getInsights"}

(* A token that verifies: one signed with the configured secret, in time. *)
Verifies(token) == env.JWT_SECRET /\ \E u \in 1..3 : token = SignedTokens[u]

(* The header is exactly 'Bearer <token>' with a token that verifies. *)
IsBearerToken(header) ==
    Len(header) = 2 /\ header[1] = "Bearer" /\ Verifies(header[2])

(* The header starts with the word Bearer and a token that verifies. *)
StartsAsBearerToken(header) ==
    Len(header) >= 2 /\ header[1] = "Bearer" /\ Verifies(header[2])

HandlerRan == http.route # "none" /\ (http.route \in GuardedRoutes => http.userId # 0)

NoCalls == http.geoCalls = 0 /\ http.wxCalls = 0 /\ http.aiCalls = 0

(* C28: every request that a handler is done with was answered exactly     *)
(* once, by the middleware or by the handler, and the middleware either    *)
(* called next once with req.user set or answered 401, never both.         *)
C28_ExactlyOneResponse ==
    /\ ( /\ http.route # "none"
         /\ \A s \in Slots : inflight[s] # http )
       => /\ http.responses = 1
          /\ ~http.raised
    /\ http.route \in GuardedRoutes
       => \/ /\ http.nextCalls = 1
             /\ http.userId # 0
             /\ http.responses = 1 => http.status # 401
          \/ /\ http.nextCalls = 0
             /\ http.userId = 0
             /\ http.responses = 1
             /\ http.status = 401

----------------------------------------------------------------------------
(* Properties of the heuristic fallback. *)

(* The city and temperature that a line of the summary shows, if it is the *)
(* line of a city whose weather was loaded.                                *)
ShownBy(line) == {w \in Shown : formatLine(w) = trim(line)}

ReadingLines(lines) == {i \in 1..Len(lines) : ShownBy(lines[i]) # {}}

TempOf(line) == (CHOOSE w \in ShownBy(line) : TRUE).temperature

RECURSIVE TempSum(_, _)
TempSum(lines, I) ==
    IF I = {} THEN 0
    ELSE LET i == CHOOSE k \in I : TRUE
         IN  TempOf(lines[i]) + TempSum(lines, I \ {i})

(* The text shows v tenths of a degree. *)
ShowsTenths(text, v) ==
    \/ text = toFixed1(v, 10)
    \/ v = 0 /\ text = <<"-", "0", ".", "0">>

Distance(a, b) == IF a < b THEN b - a ELSE a - b

(* C22: over the lines of the summary that show a city and a temperature,  *)
(* the fallback names as coldest a city of the least temperature, as       *)
(* warmest a city of the greatest, and as average their mean to the        *)
(* nearest tenth; other lines count for nothing, and with no line at all   *)
(* the answer is the fixed text.                                           *)
C22_FallbackSummary ==
    http.route = "getAiInsight"
    => LET lines == http.ext.summary
           I == ReadingLines(lines)
           shown == http.body[1]
       IN  /\ http.status = 200
           /\ shown.usedFallback
           /\ (\A i \in 1..Len(lines) : trim(lines[i]) = <<>>)
              => /\ shown.answer = "I don't have any weather data yet"
                 /\ shown.coldest = NoBullet /\ shown.warmest = NoBullet
                 /\ shown.average = <<>>
           /\ I = {}
              => shown.coldest = NoBullet /\ shown.warmest = NoBullet
                 /\ shown.average = <<>>
           /\ I # {}
              => /\ shown.answer = "summary"
                 /\ \E i \in I :
                       /\ \A k \in I : TempOf(lines[i]) <= TempOf(lines[k])
                       /\ \E w \in ShownBy(lines[i]) : shown.coldest.city = w.cityName
                       /\ ShowsTenths(shown.coldest.temp, TempOf(lines[i]))
                 /\ \E i \in I :
                       /\ \A k \in I : TempOf(lines[i]) >= TempOf(lines[k])
                       /\ \E w \in ShownBy(lines[i]) : shown.warmest.city = w.cityName
                       /\ ShowsTenths(shown.warmest.temp, TempOf(lines[i]))
                 /\ \E v \in (-20)..130 :
                       /\ ShowsTenths(shown.average, v)
                       /\ 2 * Distance(v * Cardinality(I), TempSum(lines, I))
                              <= Cardinality(I)

(* Three lines, one of them no reading: the warmer city came first, and    *)
(* the mean of -1.5 and 12.3 is shown as 5.4.                              *)
C22_Witness ==
    /\ http.route = "getAiInsight"
    /\ Len(http.ext.summary) = 3
    /\ http.ext.summary[1] = formatLine(Weather(<<"B", " ", "c">>, <<"F", "R">>, 123))
    /\ http.ext.summary[2] \in NoReadings
    /\ http.body[1].coldest = [city |-> <<"A">>, temp |-> <<"-", "1", ".", "5">>]
    /\ http.body[1].warmest.city = <<"B", " ", "c">>
    /\ http.body[1].average = <<"5", ".", "4">>

----------------------------------------------------------------------------
(* C2 as stated: a handler of a guarded route runs only under a header     *)
(* 'Bearer <token>' whose token verifies, any other request to it is       *)
(* answered 401 with no provider called, and only register and login are   *)
(* served without such a header.                                           *)
C2_AsStated ==
    /\ HandlerRan /\ http.route \notin {"register", "login"}
       => IsBearerToken(http.header)
    /\ http.route \in GuardedRoutes /\ ~IsBearerToken(http.header)
       => http.status = 401 /\ NoCalls

(* C2, amended: a handler of a guarded route runs only under a header      *)
(* whose first two words are Bearer and a token that verifies (what        *)
(* follows the token is not read); any other request to a guarded route is *)
(* answered 401, calls no provider and leaves both collections and the     *)
(* suspended requests as they were; register, login and /health are the    *)
(* routes served without a token.                                          *)
C2_GuardedRoutes ==
    /\ [](/\ HandlerRan /\ http.route \notin {"register", "login", "health"}
             => StartsAsBearerToken(http.header)
          /\ http.route \in GuardedRoutes /\ ~StartsAsBearerToken(http.header)
             => http.status = 401 /\ NoCalls /\ http.body = <<>>)
    /\ [][http'.route \in GuardedRoutes /\ ~StartsAsBearerToken(http'.header)
            => users' = users /\ cities' = cities /\ inflight' = inflight]_vars

(* A forged token was turned away at a route that would have changed the   *)
(* collection, which holds a city.                                         *)
C2_Witness ==
    /\ http.route = "deleteCity"
    /\ http.header = <<"Bearer", ForgedTokens[1]>>
    /\ http.status = 401
    /\ StoredIds # {}

(* A country code that, trimmed and upper-cased, is not empty and is not   *)
(* two letters.                                                            *)
Malformed(country) ==
    LET c == toUpperCase(trim(country))
    IN  c # <<>> /\ ~(Len(c) = 2 /\ \A i \in 1..Len(c) : c[i] \in {"F", "R", "A"})

(* C6: createCity answers a malformed country code 400 without calling the *)
(* geocoder or the weather provider, and leaves the collection as it was.  *)
C6_MalformedCodeRejected ==
    [][( /\ http'.route = "createCity"
         /\ http'.userId # 0
         /\ http'.status # 0
         /\ Malformed(http'.args.country) )
       => /\ http'.status = 400
          /\ http'.geoCalls = 0
          /\ http'.wxCalls = 0
          /\ cities' = cities
          /\ inflight' = inflight]_vars

C6_Witness ==
    /\ http.route = "createCity"
    /\ http.args.country = <<"f", "R", "f">>
    /\ http.status = 400
    /\ http.geoCalls = 0
    /\ StoredIds # {}

IdRoutes == {"deleteCity", "toggleFavorite", "getCityWeather"}

(* The input of an exchange that reached its handler is malformed: a       *)
(* required field is missing or blank, the country code is not two         *)
(* letters, or the id in the path is no object id.                         *)
MalformedInput(x) ==
    /\ x.route \in GuardedRoutes => x.userId # 0
    /\ \/ /\ x.route = "register"
          /\ x.args.name = "" \/ x.args.email = "" \/ x.args.password = ""
       \/ /\ x.route = "login"
          /\ x.args.email = "" \/ x.args.password = ""
       \/ /\ x.route \in {"createCity", "suggestCities", "getInsights"}
          /\ trim(x.args.city) = <<>>
       \/ /\ x.route \in {"createCity", "suggestCities"}
          /\ Malformed(x.args.country)
       \/ /\ x.route \in IdRoutes
          /\ x.args.id = MalformedId

(* C18: a request with malformed input is answered 400 and writes to       *)
(* neither collection.                                                     *)
C18_MalformedIs400 ==
    [][MalformedInput(http')
       => /\ http'.status = 400
          /\ users' = users
          /\ cities' = cities]_vars

(* The id of the request is well formed and names no stored city of the    *)
(* requester.                                                              *)
NamesNoCityOfRequester(x) ==
    /\ x.route \in IdRoutes
    /\ x.userId # 0
    /\ x.args.id \in CityIds
    /\ ~(Stored(x.args.id) /\ cities[x.args.id].userId = x.userId)

(* C19 as stated: deleteCity, toggleFavorite and getCityWeather answer an  *)
(* id that names no stored city of the requester with a 4xx status.        *)
C19_AsStated ==
    [][NamesNoCityOfRequester(http') => http'.status \in 400..499]_vars

(* C19, amended: toggleFavorite and getCityWeather answer a well-formed id *)
(* that names no stored city of the requester 404 'City not found',        *)
(* without a call to the weather provider; deleteCity answers it 204; none *)
(* of them changes the collection.                                         *)
C19_NotFound ==
    [][NamesNoCityOfRequester(http')
       => /\ cities' = cities
          /\ http'.wxCalls = 0
          /\ IF http'.route = "deleteCity"
             THEN http'.status = 204
             ELSE http'.status = 404 /\ http'.message = "City not found"]_vars

(* A user asked for the weather of a city stored by the other user. *)
C19_Witness ==
    /\ http.route = "getCityWeather"
    /\ http.status = 404
    /\ Stored(http.args.id)
    /\ cities[http.args.id].userId # http.userId

(* C7: suggestCities calls no geocoder when its country parameter is       *)
(* malformed.                                                              *)
C7_SuggestRejectsMalformed ==
    ( /\ http.route = "suggestCities"
      /\ http.userId # 0
      /\ Malformed(http.args.country) )
    => http.geoCalls = 0

====
